---- MODULE Spec2Model ----
(***************************************************************************)
(* The authentication pipeline of the API server: the auth routes          *)
(* (register, login, me), the JWT request gate, the auth service, and the  *)
(* collaborators they call (the user collection, bcrypt, jsonwebtoken).    *)
(* Each in-flight HTTP request is a slot with a program counter; a slot    *)
(* moves at the await points of its handler, so requests interleave the    *)
(* way Node's event loop lets them.                                        *)
(***************************************************************************)
EXTENDS Integers, Sequences, FiniteSets, TLC

\* ---------------------------------------------------------------- bounds

\* Requests accepted over a run.
MaxRequests == 2
\* The clock runs from 0 to MaxTime (ticks).
MaxTime == 2
\* Clock ticks that the configured lifetime "24h" stands for.
TokenLifetime == 1

\* Connections: the requests that can be in flight at once.
Slots == {1, 2}

Emails == {"a@b.com", "c@d.org"}
\* Passwords accounts are registered with, and passwords logins try.
RegisterPasswords == {"secret1"}
LoginPasswords == {"secret1", "hunter22"}
FirstNames == {"Ann"}
LastNames == {"Lee"}
Salts == {"s1", "s2"}

\* config.jwt.secret (32 characters), and a key the server does not hold.
ServerSecret == "K-server-secret-0123456789abcdef"
ForgerSecret == "X"

\* Values JWT_EXPIRES_IN can take: configSchema accepts any string.
ExpiresInValues == {"24h", "soon"}

Null == [null |-> TRUE]

\* ------------------------------------------------------- string helpers

\* String.prototype.startsWith
StartsWith(s, p) == Len(s) >= Len(p) /\ SubSeq(s, 1, Len(p)) = p

\* String.prototype.slice(k): the string without its first k characters
Slice(s, k) == IF Len(s) <= k THEN "" ELSE SubSeq(s, k + 1, Len(s))

\* The string with every character from replaced by to (halving keeps the
\* evaluation shallow)
RECURSIVE MapChars(_, _, _)
MapChars(s, from, to) ==
  IF Len(s) = 0 THEN ""
  ELSE IF Len(s) = 1 THEN (IF s = from THEN to ELSE s)
  ELSE MapChars(SubSeq(s, 1, Len(s) \div 2), from, to)
         \o MapChars(SubSeq(s, Len(s) \div 2 + 1, Len(s)), from, to)

\* base64url: an injective encoding whose output holds no "."; here the
\* one character of the inputs that matters, ".", is recoded as "_".
B64UrlEncode(s) == MapChars(s, ".", "_")
B64UrlDecode(s) == MapChars(s, "_", ".")

\* The pieces of a string from the pieces of its two halves: the last
\* piece of the first half and the first of the second are one piece
JoinPieces(a, b) ==
  SubSeq(a, 1, Len(a) - 1) \o <<a[Len(a)] \o b[1]>> \o SubSeq(b, 2, Len(b))

\* String.prototype.split(sep) for a one-character separator (halving
\* keeps the evaluation shallow)
RECURSIVE Split(_, _)
Split(s, sep) ==
  IF Len(s) = 0 THEN <<"">>
  ELSE IF Len(s) = 1 THEN (IF s = sep THEN <<"", "">> ELSE <<s>>)
  ELSE JoinPieces(Split(SubSeq(s, 1, Len(s) \div 2), sep),
                  Split(SubSeq(s, Len(s) \div 2 + 1, Len(s)), sep))

\* JSON number -> integer; -1 when the text is no number of the model's range
ParseNat(s) ==
  IF \E n \in 0..(MaxTime + TokenLifetime + 1) : ToString(n) = s
  THEN CHOOSE n \in 0..(MaxTime + TokenLifetime + 1) : ToString(n) = s
  ELSE -1

\* ------------------------------------------------------ error taxonomy

AppError(name, message, statusCode, isOperational, details) ==
  [name |-> name, message |-> message, statusCode |-> statusCode,
   isOperational |-> isOperational, details |-> details]

UnauthorizedError(message) ==
  AppError("UnauthorizedError", message, 401, TRUE, Null)

BadRequestError(message, details) ==
  AppError("BadRequestError", message, 400, TRUE, details)

ForbiddenError(message) ==
  AppError("ForbiddenError", message, 403, TRUE, Null)

NotFoundError(message) ==
  AppError("NotFoundError", message, 404, TRUE, Null)

ConflictError(message) ==
  AppError("ConflictError", message, 409, TRUE, Null)

\* new TokenExpiredError(): the default message
TokenExpiredError ==
  AppError("TokenExpiredError", "Token expired", 401, TRUE, Null)

InternalServerError(message, details) ==
  AppError("InternalServerError", message, 500, FALSE, details)

\* An error of the persistence driver, as the service's catch receives it.
MongoError(message) == [name |-> "MongoError", message |-> message]

\* --------------------------------------------------- response helpers

sendSuccess(data) == [status |-> 200, body |-> data]

\* A helper that sends the text under "message"
sendErrorAsMessage(error, statusCode, details) ==
  [status |-> statusCode, body |-> [message |-> error]]

sendError(error, statusCode, details) ==
  [status |-> statusCode,
   body |-> IF details = Null THEN [error |-> error]
            ELSE [error |-> error, details |-> details]]

sendBadRequest(error, details) == sendError(error, 400, details)

sendUnauthorized(error) == sendError(error, 401, Null)

sendNotFound(error) == sendError(error, 404, Null)

sendInternalError(error) == sendError(error, 500, Null)

sendCreated(data) == [status |-> 201, body |-> data]

\* ----------------------------------------------------------- bcrypt

\* A hash that returns the password as given
BcryptHashPlain(password, salt) == password

\* bcrypt.hash(password, 10) with the salt it drew: the hash names its
\* salt, and is a one-to-one function of (salt, password).
BcryptHash(password, salt) == "$2b$10$" \o salt \o "$" \o password

\* A compare that accepts every password
BcryptCompareAny(password, hash) == TRUE

\* bcrypt.compare(password, hash): re-hash under the hash's own salt
BcryptCompare(password, hash) ==
  \E salt \in Salts : hash = BcryptHash(password, salt)

\* ------------------------------------------------------ jsonwebtoken

JwtHeaderSeg == "H"

\* ms(expiresIn) in clock ticks; -1 when ms() cannot read the string
Timespan(expiresIn) == IF expiresIn = "24h" THEN TokenLifetime ELSE -1

JwtPayloadSeg(claims) ==
  B64UrlEncode(claims.userId \o "," \o claims.email \o ","
               \o ToString(claims.iat) \o "," \o ToString(claims.exp))

\* HMAC of the signing input under a key: one-to-one in (key, input)
Hmac(key, headerSeg, payloadSeg) == key \o ":" \o headerSeg \o ":" \o payloadSeg

JwtEncode(claims, key) ==
  JwtHeaderSeg \o "." \o JwtPayloadSeg(claims) \o "."
    \o Hmac(key, JwtHeaderSeg, JwtPayloadSeg(claims))

\* jwt.sign(payload, secret, {expiresIn}) at time clock
JwtSign(payload, secret, expiresIn, clock) ==
  IF Timespan(expiresIn) < 0
  THEN [ok |-> FALSE, error |-> "Error"]
  ELSE [ok |-> TRUE,
        token |-> JwtEncode([userId |-> payload.userId, email |-> payload.email,
                             iat |-> clock, exp |-> clock + Timespan(expiresIn)],
                            secret)]

\* JSON.parse of a payload segment: the claims, or Null when it throws
JwtParsePayload(seg) ==
  LET f == Split(B64UrlDecode(seg), ",") IN
  IF Len(f) # 4 \/ ParseNat(f[3]) < 0 \/ ParseNat(f[4]) < 0
  THEN Null
  ELSE [userId |-> f[1], email |-> f[2],
        iat |-> ParseNat(f[3]), exp |-> ParseNat(f[4])]

\* jwt.verify(token, secret) at time clock: the decoded payload, or the
\* class of the error thrown
JwtVerify(token, secret, clock) ==
  LET parts == Split(token, ".") IN
  IF Len(parts) # 3 THEN [kind |-> "JsonWebTokenError"]
  ELSE IF parts[1] # JwtHeaderSeg THEN [kind |-> "JsonWebTokenError"]
  ELSE IF JwtParsePayload(parts[2]) = Null THEN [kind |-> "SyntaxError"]
  ELSE IF parts[3] = "" THEN [kind |-> "JsonWebTokenError"]
  ELSE IF parts[3] # Hmac(secret, parts[1], parts[2])
       THEN [kind |-> "JsonWebTokenError"]
  ELSE IF clock >= JwtParsePayload(parts[2]).exp
       THEN [kind |-> "TokenExpiredError"]
  ELSE [kind |-> "ok", payload |-> JwtParsePayload(parts[2])]

\* ------------------------------------------- AuthService token methods

\* A generator that signs with a key other than the configured secret
generateJwtTokenOtherKey(payload, cfg, clock) ==
  LET r == JwtSign(payload, ForgerSecret, cfg.jwtExpiresIn, clock) IN
  IF r.ok THEN [ok |-> TRUE, token |-> r.token]
  ELSE [ok |-> FALSE,
        error |-> InternalServerError("Failed to generate authentication token", Null)]

generateJwtToken(payload, cfg, clock) ==
  LET r == JwtSign(payload, cfg.jwtSecret, cfg.jwtExpiresIn, clock) IN
  IF r.ok THEN [ok |-> TRUE, token |-> r.token]
  ELSE [ok |-> FALSE,
        error |-> InternalServerError("Failed to generate authentication token", Null)]

\* A verification that decodes the payload without checking the signature
\* or the expiry (jwt.decode in place of jwt.verify)
verifyJwtTokenDecodeOnly(token, cfg, clock) ==
  LET parts == Split(token, ".") IN
  IF Len(parts) = 3 /\ JwtParsePayload(parts[2]) # Null
  THEN [ok |-> TRUE, decoded |-> JwtParsePayload(parts[2])]
  ELSE [ok |-> FALSE, error |-> UnauthorizedError("Invalid authentication token")]

\* A verification that tests for JsonWebTokenError before TokenExpiredError,
\* its subclass
verifyJwtTokenSwappedChecks(token, cfg, clock) ==
  LET r == JwtVerify(token, cfg.jwtSecret, clock) IN
  IF r.kind = "ok" THEN [ok |-> TRUE, decoded |-> r.payload]
  ELSE IF r.kind \in {"JsonWebTokenError", "TokenExpiredError"}
       THEN [ok |-> FALSE, error |-> UnauthorizedError("Invalid authentication token")]
  ELSE [ok |-> FALSE, error |-> UnauthorizedError("Authentication failed")]

verifyJwtToken(token, cfg, clock) ==
  LET r == JwtVerify(token, cfg.jwtSecret, clock) IN
  IF r.kind = "ok" THEN [ok |-> TRUE, decoded |-> r.payload]
  ELSE IF r.kind = "TokenExpiredError"
       THEN [ok |-> FALSE, error |-> UnauthorizedError("Authentication token expired")]
  ELSE IF r.kind = "JsonWebTokenError"
       THEN [ok |-> FALSE, error |-> UnauthorizedError("Invalid authentication token")]
  ELSE [ok |-> FALSE, error |-> UnauthorizedError("Authentication failed")]

\* ------------------------------------- AuthService: values returned

\* register's {userId, user} for the created document
registerResult(user) ==
  [userId |-> user.id,
   user |-> [id |-> user.id, email |-> user.email,
             firstName |-> user.firstName, lastName |-> user.lastName]]

\* login's {userId, user} for the document found
loginResult(user) ==
  [userId |-> user.id,
   user |-> [id |-> user.id, email |-> user.email,
             firstName |-> user.firstName, lastName |-> user.lastName]]

\* A profile with the two name fields exchanged
profileResultSwapped(user) ==
  [id |-> user.id, email |-> user.email,
   firstName |-> user.lastName, lastName |-> user.firstName]

\* getUserProfile's UserProfileResponse for the document found
profileResult(user) ==
  [id |-> user.id, email |-> user.email,
   firstName |-> user.firstName, lastName |-> user.lastName]

\* ------------------------------------------- Authorization header gate

\* req.headers.authorization: absent (undefined) or a string
NoHeader == [present |-> FALSE, value |-> ""]
Header(v) == [present |-> TRUE, value |-> v]

\* authenticateJWT(req, res, next): whether next() is called, req.user,
\* the response sent, and the calls made to verifyJwtToken
\* A gate that reads a missing header as an empty one
HeaderMissingNever(header) == FALSE

\* A gate that never strips the "Bearer " prefix
ExtractTokenNoStrip(authHeader) == authHeader

\* !authHeader: undefined and the empty string are both falsy
HeaderMissing(header) == ~header.present \/ header.value = ""

\* authHeader.startsWith("Bearer ") ? authHeader.slice(7) : authHeader
ExtractToken(authHeader) ==
  IF StartsWith(authHeader, "Bearer ") THEN Slice(authHeader, 7) ELSE authHeader

\* A gate without the return after its first rejection: it answers and
\* goes on to next()
authenticateJWTFallingThrough(header, cfg, clock) ==
  IF HeaderMissing(header)
  THEN [next |-> TRUE, user |-> Null, verifyCalls |-> 0,
        resp |-> sendUnauthorized("Authorization header missing")]
  ELSE LET v == verifyJwtToken(ExtractToken(header.value), cfg, clock) IN
       IF v.ok
       THEN [next |-> TRUE, user |-> v.decoded, verifyCalls |-> 1, resp |-> Null]
       ELSE [next |-> FALSE, user |-> Null, verifyCalls |-> 1,
             resp |-> sendUnauthorized(v.error.message)]

authenticateJWT(header, cfg, clock) ==
  IF HeaderMissing(header)
  THEN [next |-> FALSE, user |-> Null, verifyCalls |-> 0,
        resp |-> sendUnauthorized("Authorization header missing")]
  ELSE LET token == ExtractToken(header.value)
       IN IF token = ""
          THEN [next |-> FALSE, user |-> Null, verifyCalls |-> 0,
                resp |-> sendUnauthorized("Token missing")]
          ELSE LET v == verifyJwtToken(token, cfg, clock) IN
               IF v.ok
               THEN [next |-> TRUE, user |-> v.decoded, verifyCalls |-> 1,
                     resp |-> Null]
               ELSE IF v.error.name = "UnauthorizedError"
                    THEN [next |-> FALSE, user |-> Null, verifyCalls |-> 1,
                          resp |-> sendUnauthorized(v.error.message)]
                    ELSE [next |-> FALSE, user |-> Null, verifyCalls |-> 1,
                          resp |-> sendInternalError("Authentication failed")]

\* ------------------------------------------------ the user collection

\* User.findOne({email}): the document, or Null
FindOneByEmail(coll, email) ==
  IF \E u \in coll : u.email = email
  THEN CHOOSE u \in coll : u.email = email
  ELSE Null

\* User.findById(id): the document, or Null
FindById(coll, id) ==
  IF \E u \in coll : u.id = id
  THEN CHOOSE u \in coll : u.id = id
  ELSE Null

\* A collection without the unique index
NoIndexAccepts(coll, doc) == TRUE

\* The unique index on email: whether the collection accepts the document
UniqueIndexAccepts(coll, doc) == \A u \in coll : u.email # doc.email

\* A create that builds the document and never saves it
InsertUserUnsaved(coll, doc) == coll

\* The collection after User.create(doc) has inserted
InsertUser(coll, doc) == coll \cup {doc}

\* String(user._id) of the n-th document the database creates
ObjectId(n) == "id" \o ToString(n)

\* --------------------------------------- AuthService: catch clauses

\* A catch that reads the index's duplicate-key error as Conflict
registerCatchDuplicateAsConflict(error) ==
  IF error.name = "ConflictError" THEN error
  ELSE IF error.name = "MongoError" /\ error.message = "E11000 duplicate key"
       THEN ConflictError("User with this email already exists")
  ELSE InternalServerError("Failed to register user", error)

\* register's catch: Conflict passes, anything else is wrapped
registerCatch(error) ==
  IF error.name = "ConflictError" THEN error
  ELSE InternalServerError("Failed to register user", error)

\* login's catch
loginCatch(error) ==
  IF error.name = "UnauthorizedError" THEN error
  ELSE InternalServerError("Failed to login", error)

\* A catch that rethrows whatever it caught
profileCatchRethrowing(error) == error

\* getUserProfile's catch
profileCatch(error) ==
  IF error.name = "UnauthorizedError" THEN error
  ELSE InternalServerError("Failed to fetch user profile", error)

\* ------------------------------------------- route handlers: catch

\* A register route that answers with the status and message of the error
registerRouteCatchForwarding(error) ==
  sendError(error.message, error.statusCode, Null)

registerRouteCatch(error) == sendInternalError("Failed to register user")

\* A login route that answers failures the way the register route does
loginRouteCatchAs500(error) == sendInternalError("Failed to login")

\* A login route that answers with the status and message of the error
loginRouteCatchForwarding(error) ==
  sendError(error.message, error.statusCode, Null)

loginRouteCatch(error) == sendUnauthorized("Invalid email or password")

meRouteCatch(error) == sendInternalError("Failed to fetch user profile")

\* ------------------------------------------------------- JSON values

\* A value of a request slot: a string, a number (by its text), an object
\* (a function from its keys to values) or an array; JUndefined is what
\* reading a key the object does not have gives. Each is a record whose one
\* field names the type.
JStr(s) == [string |-> s]
JNum(text) == [number |-> text]
JObj(fields) == [object |-> fields]
JArr(items) == [array |-> items]
JUndefined == [undefined |-> TRUE]

\* typeof, with "array" for arrays
TypeOf(v) == CHOOSE t \in DOMAIN v : TRUE

\* The object {}
EmptyFields == [k \in {} |-> JUndefined]

\* data[key]
Field(fields, key) == IF key \in DOMAIN fields THEN fields[key] ELSE JUndefined

\* Array.prototype.join(sep) over strings
RECURSIVE Join(_, _)
Join(segments, sep) ==
  IF Len(segments) = 0 THEN ""
  ELSE IF Len(segments) = 1 THEN segments[1]
  ELSE segments[1] \o sep \o Join(Tail(segments), sep)

\* ------------------------------------------------------------- schemas

\* z.string().email(message) and z.string().min(n, message), per key
EmailField(key, message) ==
  [key |-> key, check |-> "email", min |-> 0, message |-> message]
MinField(key, n, message) ==
  [key |-> key, check |-> "min", min |-> n, message |-> message]

registerSchema ==
  <<EmailField("email", "Invalid email address"),
    MinField("password", 6, "Password must be at least 6 characters"),
    MinField("firstName", 1, "First name is required"),
    MinField("lastName", 1, "Last name is required")>>

loginSchema ==
  <<EmailField("email", "Invalid email address"),
    MinField("password", 1, "Password is required")>>

\* zod's email test: one "@", a non-empty local part, and a domain with a
\* "." inside it
IsEmail(s) ==
  LET parts == Split(s, "@") IN
  /\ Len(parts) = 2
  /\ parts[1] # ""
  /\ LET labels == Split(parts[2], ".") IN
     Len(labels) >= 2 /\ \A i \in 1..Len(labels) : labels[i] # ""

\* The issues one key's schema reports for the value found under it
FieldIssues(f, v) ==
  IF TypeOf(v) = "undefined"
  THEN <<[path |-> <<f.key>>, message |-> "Required"]>>
  ELSE IF TypeOf(v) # "string"
  THEN <<[path |-> <<f.key>>, message |-> "Expected string, received " \o TypeOf(v)]>>
  ELSE IF f.check = "email" /\ ~IsEmail(v.string)
  THEN <<[path |-> <<f.key>>, message |-> f.message]>>
  ELSE IF f.check = "min" /\ Len(v.string) < f.min
  THEN <<[path |-> <<f.key>>, message |-> f.message]>>
  ELSE <<>>

\* The issues of the first n keys of an object schema, in the schema's order
RECURSIVE ObjectIssues(_, _, _)
ObjectIssues(schema, fields, n) ==
  IF n = 0 THEN <<>>
  ELSE ObjectIssues(schema, fields, n - 1)
         \o FieldIssues(schema[n], Field(fields, schema[n].key))

\* schema.safeParse(data) of a z.object schema: every key is checked (no
\* stop at the first issue); on success the data holds the schema's keys
\* only (unknown keys are stripped)
SafeParse(schema, data) ==
  IF TypeOf(data) # "object"
  THEN [success |-> FALSE,
        issues |-> <<[path |-> <<>>,
                      message |-> IF TypeOf(data) = "undefined" THEN "Required"
                                  ELSE "Expected object, received " \o TypeOf(data)]>>]
  ELSE LET issues == ObjectIssues(schema, data.object, Len(schema)) IN
       IF Len(issues) > 0
       THEN [success |-> FALSE, issues |-> issues]
       ELSE [success |-> TRUE,
             data |-> JObj([k \in {schema[i].key : i \in 1..Len(schema)}
                              |-> data.object[k]])]

\* ------------------------------------------------ validation middleware

\* A middleware that reports the first issue only
errorDetailsFirstOnly(issues) ==
  JArr(<<[path |-> Join(issues[1].path, "."), message |-> issues[1].message]>>)

\* result.error.issues.map(issue => ({path: issue.path.join("."), message}))
errorDetails(issues) ==
  JArr([i \in 1..Len(issues) |->
          [path |-> Join(issues[i].path, "."), message |-> issues[i].message]])

\* A middleware that keeps the slot it received when the parse succeeds
\* (unknown keys included) instead of assigning the parsed data
validateKeepingSlot(schema, target, slots) ==
  LET result == SafeParse(schema, slots[target]) IN
  IF ~result.success
  THEN [next |-> FALSE, slots |-> slots,
        resp |-> sendBadRequest("Invalid request data", errorDetails(result.issues))]
  ELSE [next |-> TRUE, slots |-> slots, resp |-> Null]

\* A middleware that answers 400 and still calls next()
validateNextAlways(schema, target, slots) ==
  LET result == SafeParse(schema, slots[target]) IN
  IF ~result.success
  THEN [next |-> TRUE, slots |-> slots,
        resp |-> sendBadRequest("Invalid request data", errorDetails(result.issues))]
  ELSE [next |-> TRUE, slots |-> [slots EXCEPT ![target] = result.data],
        resp |-> Null]

\* validate(schema, target)(req, res, next): whether next() is called, the
\* request's slots afterwards, and the response sent
validate(schema, target, slots) ==
  LET result == SafeParse(schema, slots[target]) IN
  IF ~result.success
  THEN [next |-> FALSE, slots |-> slots,
        resp |-> sendBadRequest("Invalid request data", errorDetails(result.issues))]
  ELSE [next |-> TRUE, slots |-> [slots EXCEPT ![target] = result.data],
        resp |-> Null]

\* ------------------------------------------------- global error handler

\* config.nodeEnv: the three values configSchema accepts
NodeEnvs == {"development", "production", "test"}

\* err instanceof AppError: the class of the error is AppError or extends it
IsAppError(err) ==
  err.name \in {"AppError", "BadRequestError", "UnauthorizedError", "ForbiddenError",
                "NotFoundError", "ConflictError", "InternalServerError",
                "TokenExpiredError"}

\* err.stack: an Error instance has the stack captured when it was made;
\* a thrown value that is no Error says so by an empty stack field
ErrStack(err) ==
  IF "stack" \in DOMAIN err THEN err.stack
  ELSE "Error: " \o err.message \o "\n    at <anonymous>"

\* typeof details === "object" && details !== null
IsObjectValue(details) ==
  details # Null /\ DOMAIN details # {"string"} /\ DOMAIN details # {"number"}

\* {...details, stack}: the own enumerable properties of details (an
\* Error's name, message and stack are not enumerable), and stack
SpreadWithStack(details, stack) ==
  LET keys == IF IsObjectValue(details)
              THEN (IF "name" \in DOMAIN details
                    THEN DOMAIN details \ {"name", "message", "stack"}
                    ELSE DOMAIN details)
              ELSE {} IN
  [k \in keys \cup {"stack"} |-> IF k = "stack" THEN stack ELSE details[k]]

\* A handler that answers with the status and message the thrown value
\* carries, whatever its class
errorHandlerTrusting(err, cfg) ==
  [status |-> IF "statusCode" \in DOMAIN err THEN err.statusCode ELSE 500,
   body |-> [error |-> err.message]]

\* A handler that never adds the stack
errorHandlerNoStack(err, cfg) ==
  [status |-> IF IsAppError(err) THEN err.statusCode ELSE 500,
   body |-> IF IsAppError(err) /\ err.details # Null
            THEN [error |-> err.message, details |-> err.details]
            ELSE [error |-> IF IsAppError(err) THEN err.message
                            ELSE "Internal server error"]]

\* errorHandler(err, req, res, next): the response it sends
errorHandler(err, cfg) ==
  LET statusCode == IF IsAppError(err) THEN err.statusCode ELSE 500
      message == IF IsAppError(err) THEN err.message ELSE "Internal server error"
      details == IF IsAppError(err) THEN err.details ELSE Null
  IN
  [status |-> statusCode,
   body |-> IF cfg.nodeEnv = "development" /\ ErrStack(err) # ""
            THEN [error |-> message,
                  details |-> SpreadWithStack(details, ErrStack(err))]
            ELSE IF details # Null
            THEN [error |-> message, details |-> details]
            ELSE [error |-> message]]

\* notFoundHandler(req, res)
notFoundHandler(method, path) ==
  [status |-> 404, body |-> [error |-> "Route not found: " \o method \o " " \o path]]

\* ------------------------------------------------------- process.env

\* An environment variable: unset (undefined), or set to a string
EnvUnset == [set |-> FALSE, value |-> ""]
EnvSet(v) == [set |-> TRUE, value |-> v]

\* An environment the server starts with: the required variables are
\* given, the optional ones but the token lifetime are not
BaseEnv(expiresIn) ==
  [PORT |-> EnvUnset, NODE_ENV |-> EnvUnset,
   MONGODB_URI |-> EnvSet("mongodb://db/app"),
   JWT_SECRET |-> EnvSet(ServerSecret),
   JWT_EXPIRES_IN |-> EnvSet(expiresIn),
   FRONTEND_URL |-> EnvSet("http://localhost:3000"),
   RATE_LIMIT_WINDOW_MS |-> EnvUnset, RATE_LIMIT_MAX_REQUESTS |-> EnvUnset]

\* --------------------------------------------------------- parseConfig

\* A number: NaN, or an integer
NaN == [nan |-> TRUE, value |-> 0]
Num(n) == [nan |-> FALSE, value |-> n]

IsDigit(c) == \E i \in 1..10 : SubSeq("0123456789", i, i) = c
DigitValue(c) == (CHOOSE i \in 1..10 : SubSeq("0123456789", i, i) = c) - 1
IsLetter(c) == \E i \in 1..26 : SubSeq("abcdefghijklmnopqrstuvwxyz", i, i) = c

\* The longest prefix of s made of digits
RECURSIVE DigitPrefix(_)
DigitPrefix(s) ==
  IF s = "" \/ ~IsDigit(SubSeq(s, 1, 1)) THEN ""
  ELSE SubSeq(s, 1, 1) \o DigitPrefix(Slice(s, 1))

\* The number a string of digits writes, after the digits read so far
RECURSIVE DigitsValue(_, _)
DigitsValue(s, acc) ==
  IF s = "" THEN acc
  ELSE DigitsValue(Slice(s, 1), 10 * acc + DigitValue(SubSeq(s, 1, 1)))

RECURSIVE TrimStart(_)
TrimStart(s) == IF StartsWith(s, " ") THEN TrimStart(Slice(s, 1)) ELSE s

\* parseInt(s, 10): leading blanks, a sign, then digits up to the first
\* character that is no digit; NaN when there is no digit
ParseInt(s) ==
  LET t == TrimStart(s)
      negative == StartsWith(t, "-")
      unsigned == IF negative \/ StartsWith(t, "+") THEN Slice(t, 1) ELSE t
      digits == DigitPrefix(unsigned)
  IN IF digits = "" THEN NaN
     ELSE Num(IF negative THEN 0 - DigitsValue(digits, 0) ELSE DigitsValue(digits, 0))

\* process.env.X ? parseInt(process.env.X, 10) : undefined
RawNumber(v) == IF v.set /\ v.value # "" THEN ParseInt(v.value) ELSE JUndefined

\* z.string().url(): the string parses as a URL, that is, it begins with a
\* scheme of letters and a ":" and something follows
IsUrl(s) ==
  \E i \in 2..Len(s) :
    /\ SubSeq(s, i, i) = ":"
    /\ \A j \in 1..(i - 1) : IsLetter(SubSeq(s, j, j))
    /\ i < Len(s)

\* The issue of a z.string() with a minimum length, as "path: message"
StringIssues(path, v, min, message) ==
  IF ~v.set THEN <<path \o ": Required">>
  ELSE IF Len(v.value) < min THEN <<path \o ": " \o message>>
  ELSE <<>>

\* The issue of a z.number().int().positive().default(d)
NumberIssues(path, n) ==
  IF n = JUndefined THEN <<>>
  ELSE IF n.nan THEN <<path \o ": Expected number, received nan">>
  ELSE IF n.value <= 0 THEN <<path \o ": Number must be greater than 0">>
  ELSE <<>>

\* parseConfig(): the config object, or the Error thrown
parseConfig(env) ==
  LET windowMs == RawNumber(env.RATE_LIMIT_WINDOW_MS)
      maxRequests == RawNumber(env.RATE_LIMIT_MAX_REQUESTS)
      issues ==
        (IF env.NODE_ENV.set /\ env.NODE_ENV.value \notin NodeEnvs
         THEN <<"nodeEnv: Invalid enum value. Expected 'development' | 'production' | 'test', received '"
                  \o env.NODE_ENV.value \o "'">>
         ELSE <<>>)
        \o StringIssues("mongoUri", env.MONGODB_URI, 1, "MONGO_URI is required")
        \o StringIssues("jwt.secret", env.JWT_SECRET, 32,
                        "JWT_SECRET must be at least 32 characters")
        \o (IF ~env.FRONTEND_URL.set THEN <<"frontendUrl: Required">>
            ELSE IF ~IsUrl(env.FRONTEND_URL.value) THEN <<"frontendUrl: Invalid url">>
            ELSE <<>>)
        \o NumberIssues("rateLimit.windowMs", windowMs)
        \o NumberIssues("rateLimit.maxRequests", maxRequests)
  IN
  IF Len(issues) > 0
  THEN [ok |-> FALSE,
        error |-> [name |-> "Error",
                   message |-> "Configuration validation failed:\n"
                                 \o Join(issues, "\n")
                                 \o "\n\nPlease check your .env file."]]
  ELSE [ok |-> TRUE,
        config |->
          [port |-> IF env.PORT.set THEN env.PORT.value ELSE "4000",
           nodeEnv |-> IF env.NODE_ENV.set THEN env.NODE_ENV.value ELSE "development",
           mongoUri |-> env.MONGODB_URI.value,
           jwt |-> [secret |-> env.JWT_SECRET.value,
                    expiresIn |-> IF env.JWT_EXPIRES_IN.set
                                  THEN env.JWT_EXPIRES_IN.value ELSE "24h"],
           frontendUrl |-> env.FRONTEND_URL.value,
           rateLimit |->
             [windowMs |-> IF windowMs = JUndefined THEN 15 * 60 * 1000
                           ELSE windowMs.value,
              maxRequests |-> IF maxRequests = JUndefined THEN 100
                              ELSE maxRequests.value]]]

\* ------------------------------------------------------ rate limiters

\* A store in which the client has no entry
NoHits ==
  [api |-> [count |-> 0, resetAt |-> 0], auth |-> [count |-> 0, resetAt |-> 0]]

\* Clock ticks a rate-limit window lasts.
WindowTicks == 1

\* max of authRateLimiter
AuthMax == 10

\* A limiter that counts and never limits
RateLimitOff(entry, max, clock) ==
  [entry |-> [count |-> entry.count + 1, resetAt |-> entry.resetAt],
   limited |-> FALSE]

\* rateLimit({windowMs, max}) on a request at time clock: the client's
\* entry is started anew when its window has ended, the request is
\* counted, and it is limited when the count exceeds max
RateLimit(entry, max, clock) ==
  LET fresh == clock >= entry.resetAt
      count == IF fresh THEN 1 ELSE entry.count + 1
  IN [entry |-> [count |-> count,
                 resetAt |-> IF fresh THEN clock + WindowTicks ELSE entry.resetAt],
      limited |-> count > max]

\* The error express.json() passes on for a body that is no JSON
BodyParseError ==
  [name |-> "SyntaxError", message |-> "Unexpected token } in JSON",
   statusCode |-> 400, status |-> 400]

\* What every request meets before its route: express.json(), then
\* apiRateLimiter, then, under /api/auth, authRateLimiter. The stores
\* afterwards, the counts the limiters saw (0: not reached), and the
\* response when the request ends here (Null when it goes on).
BeforeRoute(jsonOk, underAuth, store, cfg, clock) ==
  LET api == RateLimit(store.api, cfg.rateLimit.maxRequests, clock)
      auth == RateLimit(store.auth, AuthMax, clock)
  IN
  IF ~jsonOk
  THEN [hits |-> store, apiHits |-> 0, authHits |-> 0,
        resp |-> errorHandler(BodyParseError, cfg)]
  ELSE IF api.limited
  THEN [hits |-> [store EXCEPT !.api = api.entry],
        apiHits |-> api.entry.count, authHits |-> 0,
        resp |-> [status |-> 429,
                  body |-> [error |-> "Too many requests from this IP, please try again later."]]]
  ELSE IF ~underAuth
  THEN [hits |-> [store EXCEPT !.api = api.entry],
        apiHits |-> api.entry.count, authHits |-> 0, resp |-> Null]
  ELSE [hits |-> [api |-> api.entry, auth |-> auth.entry],
        apiHits |-> api.entry.count, authHits |-> auth.entry.count,
        resp |-> IF auth.limited
                 THEN [status |-> 429,
                       body |-> [error |-> "Too many authentication attempts, please try again later."]]
                 ELSE Null]

\* const {email, password, ...} = req.body: the values under the keys
BodyStrings(body, keys) ==
  [k \in keys |->
     LET v == IF TypeOf(body) = "object" THEN Field(body.object, k) ELSE JUndefined IN
     IF TypeOf(v) = "string" THEN v.string
     ELSE IF TypeOf(v) = "number" THEN v.number
     ELSE ""]

\* The part of the parsed configuration the server's modules read
ServerConfig(c) ==
  [jwtSecret |-> c.jwt.secret, jwtExpiresIn |-> c.jwt.expiresIn,
   nodeEnv |-> c.nodeEnv, rateLimit |-> c.rateLimit]

\* ---------------------------------------------- the web client's token

\* typeof window === 'undefined': the module runs on the server
NoWindow == Null

\* localStorage.getItem(TOKEN_KEY): null when there is no item, else a string
NoItem == [present |-> FALSE, value |-> ""]
Item(v) == [present |-> TRUE, value |-> v]

\* The browser's window: localStorage under the key auth_token, and
\* window.location.href
Browser(item, href) ==
  [localStorage |-> [auth_token |-> item], location |-> [href |-> href]]

getToken(w) == IF w = NoWindow THEN NoItem ELSE w.localStorage.auth_token

setToken(w, token) ==
  IF w = NoWindow THEN w ELSE [w EXCEPT !.localStorage.auth_token = Item(token)]

\* A removal that leaves the item where it is
removeTokenKeeping(w) == w

removeToken(w) ==
  IF w = NoWindow THEN w ELSE [w EXCEPT !.localStorage.auth_token = NoItem]

\* !!getToken(): null and the empty string are both falsy
isAuthenticated(w) == getToken(w).present /\ getToken(w).value # ""

logout(w) ==
  LET w2 == removeToken(w) IN
  IF w2 # NoWindow THEN [w2 EXCEPT !.location.href = "/"] ELSE w2

\* The afterResponse hook of the authenticated ky instance
afterResponse(w, status) ==
  IF status = 401
  THEN LET w2 == removeToken(w) IN
       IF w2 # NoWindow THEN [w2 EXCEPT !.location.href = "/login"] ELSE w2
  ELSE w

\* The beforeRequest hook of the authenticated ky instance: the
\* Authorization header the request leaves with
beforeRequest(w) ==
  IF isAuthenticated(w) THEN Header("Bearer " \o getToken(w).value) ELSE NoHeader

\* useAuthGuard's effect: router.push("/login") unless authenticated
useAuthGuard(w) ==
  IF w # NoWindow /\ ~isAuthenticated(w)
  THEN [w EXCEPT !.location.href = "/login"]
  ELSE w

\* ---------------------------------------------------------------- state

VARIABLES
  config,     \* the parsed configuration (jwt.secret, jwt.expiresIn)
  users,      \* the user collection
  nextId,     \* documents created so far, plus one
  now,        \* the clock, in ticks
  req,        \* per slot: the request being handled and its handler's position
  held,       \* the {token, user} a client last received, the claims the
              \* token was generated from, and when
  last,       \* the request that finished last, with its response
  arrivals,   \* requests accepted so far
  processEnv, \* process.env, as parseConfig reads it
  hits,       \* the rate limiters' stores: per limiter, the client's count
              \* in the current window and when the window ends
  window      \* the web client's window (localStorage, location), or
              \* NoWindow where there is none

vars == <<config, users, nextId, now, req, held, last, arrivals, processEnv, hits,
         window>>

IdleRequest ==
  [kind |-> "none", pc |-> "idle", body |-> Null, header |-> NoHeader,
   user |-> Null, loc |-> Null, resp |-> Null,
   \* bookkeeping of what the handler did, read by the properties only
   svc |-> "none", svcArg |-> "", verifyCalls |-> 0, handlerRan |-> FALSE,
   dbReads |-> 0, createCalls |-> 0, inserted |-> 0, hashCalls |-> 0,
   existed |-> FALSE, dbErr |-> FALSE, authAt |-> 0,
   \* what the auth service returned or threw
   svcRes |-> Null, svcErr |-> Null,
   \* the validation middleware: req.body, req.query and req.params as
   \* received and as the middleware left them, and its calls of next()
   received |-> Null, slots |-> Null, target |-> "", schema |-> "",
   nextCalls |-> 0,
   \* the error passed to the global error handler
   thrown |-> Null,
   \* whether express.json() could parse the body, and the counts the
   \* two rate limiters saw for the request (0: not reached)
   jsonOk |-> TRUE, apiHits |-> 0, authHits |-> 0]

Init ==
  /\ config \in {[jwtSecret |-> ServerSecret, jwtExpiresIn |-> x] : x \in ExpiresInValues}
  /\ window = NoWindow
  /\ users = {}
  /\ nextId = 1
  /\ now = 0
  /\ req = [s \in Slots |-> IdleRequest]
  /\ held = Null
  /\ last = IdleRequest
  /\ arrivals = 0
  /\ processEnv = BaseEnv(config.jwtExpiresIn)
  /\ hits = NoHits

Free(s) == req[s].pc = "idle" /\ arrivals < MaxRequests

\* The handler of slot s ends: the response is sent, the slot is free again
Done(s, r, svc, resp) ==
  /\ req' = [req EXCEPT ![s] = IdleRequest]
  /\ last' = [r EXCEPT !.pc = "done", !.svc = svc, !.resp = resp]

\* The same, after the auth service threw err
DoneErr(s, r, err, resp) == Done(s, [r EXCEPT !.svcErr = err], err.name, resp)

\* The handler of slot s goes on to its next await
Continue(s, r) ==
  /\ req' = [req EXCEPT ![s] = r]
  /\ UNCHANGED last

\* ----------------------------------------- POST /api/auth/register

ArriveRegister(s) ==
  /\ Free(s)
  /\ \E e \in Emails, p \in RegisterPasswords, f \in FirstNames, l \in LastNames :
       req' = [req EXCEPT ![s] =
                 [IdleRequest EXCEPT
                    !.kind = "register", !.pc = "reg_find", !.handlerRan = TRUE,
                    !.body = [email |-> e, password |-> p,
                              firstName |-> f, lastName |-> l],
                    !.existed = (\E u \in users : u.email = e)]]
  /\ arrivals' = arrivals + 1
  /\ UNCHANGED <<window, processEnv, hits, config, users, nextId, now, held, last>>

\* await User.findOne({email}); if (existingUser) throw Conflict
RegisterFindOne(s) ==
  /\ req[s].pc = "reg_find"
  /\ \E dbOk \in BOOLEAN :
       LET r == [req[s] EXCEPT !.dbReads = @ + 1, !.dbErr = ~dbOk] IN
       IF ~dbOk
       THEN LET err == registerCatch(MongoError("findOne failed")) IN
            DoneErr(s, r, err, registerRouteCatch(err))
       ELSE IF FindOneByEmail(users, r.body.email) # Null
       THEN LET err == registerCatch(ConflictError("User with this email already exists")) IN
            DoneErr(s, r, err, registerRouteCatch(err))
       ELSE Continue(s, [r EXCEPT !.pc = "reg_hash"])
  /\ UNCHANGED <<window, processEnv, hits, config, users, nextId, now, held, arrivals>>

\* await bcrypt.hash(password, saltRounds)
RegisterHash(s) ==
  /\ req[s].pc = "reg_hash"
  /\ \E salt \in Salts :
       Continue(s, [req[s] EXCEPT
                      !.pc = "reg_create", !.hashCalls = @ + 1,
                      !.loc = [hashedPassword |->
                                 BcryptHash(req[s].body.password, salt)]])
  /\ UNCHANGED <<window, processEnv, hits, config, users, nextId, now, held, arrivals>>

\* await User.create(...), the service's return, then the route's
\* generateJwtToken and sendCreated
RegisterCreate(s) ==
  /\ req[s].pc = "reg_create"
  /\ \E dbOk \in BOOLEAN :
       LET r == [req[s] EXCEPT !.createCalls = @ + 1, !.dbErr = ~dbOk]
           doc == [id |-> ObjectId(nextId), email |-> r.body.email,
                   password |-> r.loc.hashedPassword,
                   firstName |-> r.body.firstName, lastName |-> r.body.lastName]
       IN
       IF ~dbOk \/ ~UniqueIndexAccepts(users, doc)
       THEN LET err == registerCatch(MongoError(IF dbOk THEN "E11000 duplicate key"
                                                ELSE "create failed")) IN
            /\ DoneErr(s, r, err, registerRouteCatch(err))
            /\ UNCHANGED <<users, nextId, held>>
       ELSE LET res == registerResult(doc)
                t == generateJwtToken([userId |-> res.userId, email |-> res.user.email],
                                      config, now)
                r2 == [r EXCEPT !.svcRes = res,
                                !.inserted = Cardinality(InsertUser(users, doc))
                                              - Cardinality(users)]
            IN
            /\ users' = InsertUser(users, doc)
            /\ nextId' = nextId + 1
            /\ IF t.ok
               THEN /\ Done(s, r2, "ok", sendCreated([token |-> t.token,
                                                               user |-> res.user]))
                    /\ held' = [token |-> t.token, user |-> res.user,
                                 claims |-> [userId |-> res.userId,
                                             email |-> res.user.email],
                                 via |-> "register", at |-> now]
               ELSE /\ Done(s, r2, "ok", registerRouteCatch(t.error))
                    /\ UNCHANGED held
  /\ UNCHANGED <<window, processEnv, hits, config, now, arrivals>>

\* -------------------------------------------- POST /api/auth/login

ArriveLogin(s) ==
  /\ Free(s)
  /\ \E e \in Emails, p \in LoginPasswords :
       req' = [req EXCEPT ![s] =
                 [IdleRequest EXCEPT
                    !.kind = "login", !.pc = "login_find", !.handlerRan = TRUE,
                    !.body = [email |-> e, password |-> p],
                    !.existed = (\E u \in users : u.email = e)]]
  /\ arrivals' = arrivals + 1
  /\ UNCHANGED <<window, processEnv, hits, config, users, nextId, now, held, last>>

\* await User.findOne({email}); if (!user) throw Unauthorized
LoginFindOne(s) ==
  /\ req[s].pc = "login_find"
  /\ \E dbOk \in BOOLEAN :
       LET r == [req[s] EXCEPT !.dbReads = @ + 1, !.dbErr = ~dbOk]
           user == FindOneByEmail(users, r.body.email)
       IN
       IF ~dbOk
       THEN LET err == loginCatch(MongoError("findOne failed")) IN
            DoneErr(s, r, err, loginRouteCatch(err))
       ELSE IF user = Null
       THEN LET err == loginCatch(UnauthorizedError("Invalid email or password")) IN
            DoneErr(s, r, err, loginRouteCatch(err))
       ELSE Continue(s, [r EXCEPT !.pc = "login_compare", !.loc = user])
  /\ UNCHANGED <<window, processEnv, hits, config, users, nextId, now, held, arrivals>>

\* await bcrypt.compare(password, user.password), the service's return,
\* then the route's generateJwtToken and sendSuccess
LoginCompare(s) ==
  /\ req[s].pc = "login_compare"
  /\ LET r == req[s]
         user == r.loc
     IN
     IF ~BcryptCompare(r.body.password, user.password)
     THEN LET err == loginCatch(UnauthorizedError("Invalid email or password")) IN
          /\ DoneErr(s, r, err, loginRouteCatch(err))
          /\ UNCHANGED held
     ELSE LET res == loginResult(user)
              t == generateJwtToken([userId |-> res.userId, email |-> res.user.email],
                                    config, now) IN
          IF t.ok
          THEN /\ Done(s, [r EXCEPT !.svcRes = res], "ok",
                       sendSuccess([token |-> t.token, user |-> res.user]))
               /\ held' = [token |-> t.token, user |-> res.user,
                            claims |-> [userId |-> res.userId,
                                        email |-> res.user.email],
                            via |-> "login", at |-> now]
          ELSE /\ Done(s, [r EXCEPT !.svcRes = res], "ok", loginRouteCatch(t.error))
               /\ UNCHANGED held
  /\ UNCHANGED <<window, processEnv, hits, config, users, nextId, now, arrivals>>

\* ------------------------------------------------ GET /api/auth/me

\* A token a client can make from one it holds, without the server's key:
\* the same header and payload, signed with another key
Forge(token) ==
  LET parts == Split(token, ".") IN
  parts[1] \o "." \o parts[2] \o "." \o Hmac(ForgerSecret, parts[1], parts[2])

HeldTokens == IF held = Null THEN {} ELSE {held.token}

\* The Authorization headers a client sends
HeaderChoices ==
  {NoHeader, Header(""), Header("Bearer "), Header("Bearer garbage"),
   Header("Bearer H.junk.x")}
  \cup {Header("Bearer " \o t) : t \in HeldTokens}
  \cup {Header(t) : t \in HeldTokens}
  \cup {Header("Bearer " \o Forge(t)) : t \in HeldTokens}

\* GET /api/auth/me arrives: authenticateJWT, then (after next()) the
\* handler up to its await of authService.getUserProfile(req.user.userId);
\* all of it runs without suspending
MeAuthenticate(s) ==
  /\ Free(s)
  /\ arrivals' = arrivals + 1
  /\ \E h \in HeaderChoices :
       LET a == authenticateJWT(h, config, now)
           r == [IdleRequest EXCEPT !.kind = "me", !.header = h,
                                    !.user = a.user, !.verifyCalls = a.verifyCalls,
                                    !.authAt = now]
       IN
       IF ~a.next
       THEN Done(s, r, "none", a.resp)
       ELSE IF r.user = Null
       THEN Done(s, [r EXCEPT !.handlerRan = TRUE], "none",
                 sendUnauthorized("User not authenticated"))
       ELSE Continue(s, [r EXCEPT !.handlerRan = TRUE, !.pc = "me_find",
                                  !.svcArg = r.user.userId])
  /\ UNCHANGED <<window, processEnv, hits, config, users, nextId, now, held>>

\* await User.findById(userId) in getUserProfile, then sendSuccess
MeFindById(s) ==
  /\ req[s].pc = "me_find"
  /\ \E dbOk \in BOOLEAN :
       LET r == [req[s] EXCEPT !.dbReads = @ + 1, !.dbErr = ~dbOk]
           user == FindById(users, r.svcArg)
       IN
       IF ~dbOk
       THEN LET err == profileCatch(MongoError("findById failed")) IN
            DoneErr(s, r, err, meRouteCatch(err))
       ELSE IF user = Null
       THEN LET err == profileCatch(UnauthorizedError("User not found")) IN
            DoneErr(s, r, err, meRouteCatch(err))
       ELSE Done(s, [r EXCEPT !.svcRes = profileResult(user)], "ok",
                 sendSuccess(profileResult(user)))
  /\ UNCHANGED <<window, processEnv, hits, config, users, nextId, now, held, arrivals>>

\* ------------------------------------------------------------ the clock

Tick ==
  /\ now < MaxTime
  /\ now' = now + 1
  /\ UNCHANGED <<window, processEnv, hits, config, users, nextId, req, held, arrivals, last>>

Next ==
  \/ \E s \in Slots : ArriveRegister(s)
  \/ \E s \in Slots : RegisterFindOne(s)
  \/ \E s \in Slots : RegisterHash(s)
  \/ \E s \in Slots : RegisterCreate(s)
  \/ \E s \in Slots : ArriveLogin(s)
  \/ \E s \in Slots : LoginFindOne(s)
  \/ \E s \in Slots : LoginCompare(s)
  \/ \E s \in Slots : MeAuthenticate(s)
  \/ \E s \in Slots : MeFindById(s)
  \/ Tick

Spec == Init /\ [][Next]_vars

\* ================================= the validation middleware on its own

\* Values a client puts under the keys of a JSON body (JUndefined: the
\* key is left out)
EmailValues == {JUndefined, JStr("a@b.com"), JStr("nope")}
PasswordValues == {JStr("secret1"), JStr("12345"), JNum("5")}
FirstNameValues == {JStr("Ann"), JStr("")}
LastNameValues == {JStr("Lee"), JStr("")}
RoleValues == {JUndefined, JStr("admin")}

\* The object holding the keys that were given a value
ObjectOf(choice) ==
  JObj([k \in {k \in DOMAIN choice : TypeOf(choice[k]) # "undefined"} |-> choice[k]])

\* req.body after express.json(): an object, with keys the schemas know
\* and one they do not; or a value that is no object
RequestBodies ==
  {ObjectOf([email |-> e, password |-> p, firstName |-> f, lastName |-> l,
             role |-> x]) :
     e \in EmailValues, p \in PasswordValues, f \in FirstNameValues,
     l \in LastNameValues, x \in RoleValues}
  \cup {JStr("text")}

\* req.query and req.params
RequestQueries ==
  {JObj([page |-> JStr("2")]),
   JObj([email |-> JStr("a@b.com"), password |-> JStr("secret1"),
         page |-> JStr("2")])}
RequestParams ==
  {JObj(EmptyFields),
   JObj([email |-> JStr("c@d.org"), password |-> JStr(""), id |-> JStr("7")])}

\* The requests the middleware is given: every body with one query and no
\* params, and every query and params with one body
RequestSlots ==
  {[body |-> b, query |-> JObj([page |-> JStr("2")]), params |-> JObj(EmptyFields)] :
     b \in RequestBodies}
  \cup {[body |-> ObjectOf([email |-> JStr("a@b.com"), password |-> JStr("secret1"),
                            role |-> JStr("admin")]),
         query |-> q, params |-> p] : q \in RequestQueries, p \in RequestParams}

\* The targets of validateBody, validateQuery and validateParams
Targets == {"body", "query", "params"}

SchemaNames == {"register", "login"}
SchemaNamed(name) == IF name = "register" THEN registerSchema ELSE loginSchema

\* A request passes through validate(schema, target)
ValidateRequest(s) ==
  /\ Free(s)
  /\ arrivals' = arrivals + 1
  /\ \E name \in SchemaNames, target \in Targets, received \in RequestSlots :
       LET v == validate(SchemaNamed(name), target, received)
           r == [IdleRequest EXCEPT !.kind = "validate", !.schema = name,
                                    !.target = target, !.received = received,
                                    !.slots = v.slots,
                                    !.nextCalls = IF v.next THEN 1 ELSE 0]
       IN Done(s, r, "none", v.resp)
  /\ UNCHANGED <<window, processEnv, hits, config, users, nextId, now, held>>

\* The middleware is synchronous: one connection shows all it does
ValidateNext == ValidateRequest(1)

ValidateSpec == Init /\ [][ValidateNext]_vars

\* ================================== the global error handler on its own

\* Errors of the application's own classes, as a route or service makes them
AppErrors ==
  {BadRequestError("Invalid input", Null),
   BadRequestError("Invalid input", [field |-> JStr("email")]),
   BadRequestError("Invalid input", JStr("email is taken")),
   UnauthorizedError("Invalid email or password"),
   ForbiddenError("Access denied"),
   NotFoundError("User not found"),
   ConflictError("User with this email already exists"),
   InternalServerError("Failed to register user", MongoError("E11000 duplicate key")),
   InternalServerError("Failed to login", MongoError("findOne failed")),
   InternalServerError("Failed to generate authentication token", Null),
   TokenExpiredError,
   AppError("AppError", "Teapot", 418, TRUE, Null)}

\* Everything else that reaches the handler: errors of libraries (with and
\* without status fields of their own) and thrown values that are no Error
ForeignErrors ==
  {MongoError("findOne failed"),
   [name |-> "Error", message |-> "boom"],
   [name |-> "Error", message |-> ""],
   [name |-> "SyntaxError", message |-> "Unexpected token } in JSON",
    statusCode |-> 400, status |-> 400],
   [name |-> "PayloadTooLargeError", message |-> "request entity too large",
    statusCode |-> 413, status |-> 413],
   [name |-> "Object", message |-> "not an Error", statusCode |-> 403, stack |-> ""],
   [name |-> "Object", message |-> "", stack |-> ""]}

ThrownErrors == AppErrors \cup ForeignErrors

\* An error reaches errorHandler
HandleError(s) ==
  /\ Free(s)
  /\ arrivals' = arrivals + 1
  /\ \E err \in ThrownErrors :
       Done(s, [IdleRequest EXCEPT !.kind = "error", !.thrown = err], "none",
            errorHandler(err, config))
  /\ UNCHANGED <<window, processEnv, hits, config, users, nextId, now, held>>

ErrorHandlerInit ==
  /\ config \in {[jwtSecret |-> ServerSecret, jwtExpiresIn |-> "24h", nodeEnv |-> e] :
                   e \in NodeEnvs}
  /\ window = NoWindow
  /\ users = {}
  /\ nextId = 1
  /\ now = 0
  /\ req = [s \in Slots |-> IdleRequest]
  /\ held = Null
  /\ last = IdleRequest
  /\ arrivals = 0
  /\ processEnv = [BaseEnv(config.jwtExpiresIn) EXCEPT !.NODE_ENV = EnvSet(config.nodeEnv)]
  /\ hits = NoHits

\* The handler is synchronous: one connection shows all it does
ErrorHandlerNext == HandleError(1)

ErrorHandlerSpec == ErrorHandlerInit /\ [][ErrorHandlerNext]_vars

\* ========================================= configuration loading on its own

\* The environments the server is started with
Environments ==
  {[PORT |-> p, NODE_ENV |-> n, MONGODB_URI |-> m, JWT_SECRET |-> k,
    JWT_EXPIRES_IN |-> x, FRONTEND_URL |-> f,
    RATE_LIMIT_WINDOW_MS |-> EnvUnset, RATE_LIMIT_MAX_REQUESTS |-> EnvUnset] :
     p \in {EnvUnset, EnvSet("8080")},
     n \in {EnvUnset, EnvSet("production"), EnvSet("staging")},
     m \in {EnvUnset, EnvSet(""), EnvSet("mongodb://db/app")},
     k \in {EnvUnset, EnvSet("K-server-secret-0123456789abcde"), EnvSet(ServerSecret)},
     x \in {EnvUnset, EnvSet("1h")},
     f \in {EnvUnset, EnvSet("localhost"), EnvSet("http://localhost:3000")}}
  \cup
  {[BaseEnv("24h") EXCEPT !.RATE_LIMIT_WINDOW_MS = w, !.RATE_LIMIT_MAX_REQUESTS = r] :
     w \in {EnvUnset, EnvSet(""), EnvSet("60000"), EnvSet("abc"), EnvSet("0"),
            EnvSet("-5"), EnvSet("1.5")},
     r \in {EnvUnset, EnvSet("50"), EnvSet("10abc")}}

\* Before the config module is evaluated
ConfigInit ==
  /\ processEnv \in Environments
  /\ config = Null
  /\ window = NoWindow
  /\ users = {}
  /\ nextId = 1
  /\ now = 0
  /\ req = [s \in Slots |-> IdleRequest]
  /\ held = Null
  /\ last = IdleRequest
  /\ arrivals = 0
  /\ hits = NoHits

\* export const config = parseConfig()
LoadConfig ==
  /\ config = Null
  /\ config' = parseConfig(processEnv)
  /\ UNCHANGED <<window, processEnv, hits, users, nextId, now, req, held, last, arrivals>>

ConfigNext == LoadConfig

ConfigSpec == ConfigInit /\ [][ConfigNext]_vars

\* ====================================== the application, route by route

\* Bodies a client posts to /api/auth/register and /api/auth/login
ApiRegisterBodies ==
  {ObjectOf([email |-> JStr("a@b.com"), password |-> JStr("secret1"),
             firstName |-> JStr("Ann"), lastName |-> JStr("Lee"),
             role |-> JStr("admin")]),
   ObjectOf([email |-> JStr("nope"), password |-> JStr("12345"),
             firstName |-> JStr(""), lastName |-> JStr("")]),
   ObjectOf([password |-> JStr("secret1"), firstName |-> JStr("Ann"),
             lastName |-> JStr("Lee")])}
ApiLoginBodies ==
  {ObjectOf([email |-> JStr("a@b.com"), password |-> JStr("secret1")]),
   ObjectOf([email |-> JStr("a@b.com"), password |-> JStr("")]),
   JStr("text")}

\* The request's three slots: the body given, no query, no params
SlotsOf(body) ==
  [body |-> body, query |-> JObj(EmptyFields), params |-> JObj(EmptyFields)]

\* The request ends before its route: a body that is no JSON, or a limiter
EndBeforeRoute(s, r, b) == Done(s, r, "none", b.resp)

\* POST /api/auth/register: validateBody(registerSchema), then the handler
\* up to its first await
ApiRegister(s) ==
  /\ Free(s)
  /\ arrivals' = arrivals + 1
  /\ \E jsonOk \in BOOLEAN, body \in ApiRegisterBodies :
       LET b == BeforeRoute(jsonOk, TRUE, hits, config, now)
           v == validate(registerSchema, "body", SlotsOf(body))
           r == [IdleRequest EXCEPT !.kind = "register", !.received = SlotsOf(body),
                                    !.apiHits = b.apiHits, !.authHits = b.authHits,
                                    !.jsonOk = jsonOk]
           r2 == [r EXCEPT !.schema = "register", !.target = "body",
                           !.slots = v.slots,
                           !.nextCalls = IF v.next THEN 1 ELSE 0]
       IN
       /\ hits' = b.hits
       /\ IF b.resp # Null THEN EndBeforeRoute(s, r, b)
          ELSE IF ~v.next THEN Done(s, r2, "none", v.resp)
          ELSE Continue(s, [r2 EXCEPT
                 !.pc = "reg_find", !.handlerRan = TRUE,
                 !.body = BodyStrings(v.slots.body,
                                      {"email", "password", "firstName", "lastName"}),
                 !.existed = (\E u \in users :
                                u.email = BodyStrings(v.slots.body, {"email"}).email)])
  /\ UNCHANGED <<window, processEnv, config, users, nextId, now, held>>

\* POST /api/auth/login: validateBody(loginSchema), then the handler up to
\* its first await
ApiLogin(s) ==
  /\ Free(s)
  /\ arrivals' = arrivals + 1
  /\ \E jsonOk \in BOOLEAN, body \in ApiLoginBodies :
       LET b == BeforeRoute(jsonOk, TRUE, hits, config, now)
           v == validate(loginSchema, "body", SlotsOf(body))
           r == [IdleRequest EXCEPT !.kind = "login", !.received = SlotsOf(body),
                                    !.apiHits = b.apiHits, !.authHits = b.authHits,
                                    !.jsonOk = jsonOk]
           r2 == [r EXCEPT !.schema = "login", !.target = "body",
                           !.slots = v.slots,
                           !.nextCalls = IF v.next THEN 1 ELSE 0]
       IN
       /\ hits' = b.hits
       /\ IF b.resp # Null THEN EndBeforeRoute(s, r, b)
          ELSE IF ~v.next THEN Done(s, r2, "none", v.resp)
          ELSE Continue(s, [r2 EXCEPT
                 !.pc = "login_find", !.handlerRan = TRUE,
                 !.body = BodyStrings(v.slots.body, {"email", "password"}),
                 !.existed = (\E u \in users :
                                u.email = BodyStrings(v.slots.body, {"email"}).email)])
  /\ UNCHANGED <<window, processEnv, config, users, nextId, now, held>>

\* GET /api/auth/me: authenticateJWT, then the handler up to its await
ApiMe(s) ==
  /\ Free(s)
  /\ arrivals' = arrivals + 1
  /\ \E jsonOk \in BOOLEAN,
        h \in {NoHeader, Header("Bearer garbage")}
                \cup {Header("Bearer " \o t) : t \in HeldTokens} :
       LET b == BeforeRoute(jsonOk, TRUE, hits, config, now)
           a == authenticateJWT(h, config, now)
           r == [IdleRequest EXCEPT !.kind = "me", !.header = h,
                                    !.apiHits = b.apiHits, !.authHits = b.authHits,
                                    !.jsonOk = jsonOk]
           r2 == [r EXCEPT !.user = a.user, !.verifyCalls = a.verifyCalls,
                           !.authAt = now]
       IN
       /\ hits' = b.hits
       /\ IF b.resp # Null THEN EndBeforeRoute(s, r, b)
          ELSE IF ~a.next THEN Done(s, r2, "none", a.resp)
          ELSE IF r2.user = Null
          THEN Done(s, [r2 EXCEPT !.handlerRan = TRUE], "none",
                    sendUnauthorized("User not authenticated"))
          ELSE Continue(s, [r2 EXCEPT !.handlerRan = TRUE, !.pc = "me_find",
                                      !.svcArg = r2.user.userId])
  /\ UNCHANGED <<window, processEnv, config, users, nextId, now, held>>

\* GET /health, with whatever Authorization header
ApiHealth(s) ==
  /\ Free(s)
  /\ arrivals' = arrivals + 1
  /\ \E jsonOk \in BOOLEAN, h \in {NoHeader, Header("Bearer garbage")} :
       LET b == BeforeRoute(jsonOk, FALSE, hits, config, now)
           r == [IdleRequest EXCEPT !.kind = "health", !.header = h,
                                    !.apiHits = b.apiHits, !.authHits = b.authHits,
                                    !.jsonOk = jsonOk]
       IN
       /\ hits' = b.hits
       /\ IF b.resp # Null THEN EndBeforeRoute(s, r, b)
          ELSE Done(s, [r EXCEPT !.handlerRan = TRUE], "none",
                    sendSuccess([status |-> "ok", message |-> "API is running"]))
  /\ UNCHANGED <<window, processEnv, config, users, nextId, now, held>>

\* A method and path no route matches, under /api/auth or not
ApiNoRoute(s) ==
  /\ Free(s)
  /\ arrivals' = arrivals + 1
  /\ \E jsonOk \in BOOLEAN,
        route \in {[method |-> "GET", path |-> "/nothing", underAuth |-> FALSE],
                   [method |-> "POST", path |-> "/health", underAuth |-> FALSE],
                   [method |-> "GET", path |-> "/api/auth/login", underAuth |-> TRUE]} :
       LET b == BeforeRoute(jsonOk, route.underAuth, hits, config, now)
           r == [IdleRequest EXCEPT !.kind = "noroute",
                                    !.apiHits = b.apiHits, !.authHits = b.authHits,
                                    !.jsonOk = jsonOk]
       IN
       /\ hits' = b.hits
       /\ IF b.resp # Null THEN EndBeforeRoute(s, r, b)
          ELSE Done(s, r, "none", notFoundHandler(route.method, route.path))
  /\ UNCHANGED <<window, processEnv, config, users, nextId, now, held>>

\* The stores after AuthMax requests to /api/auth at time 0
AfterAuthMaxRequests ==
  [api |-> [count |-> AuthMax, resetAt |-> WindowTicks],
   auth |-> [count |-> AuthMax, resetAt |-> WindowTicks]]

\* The server has started; the client may already have made AuthMax
\* requests to /api/auth in the current window (each counted by both
\* limiters), when the configured maximum allows that many
ApiInit ==
  /\ processEnv \in {[BaseEnv("24h") EXCEPT !.NODE_ENV = n,
                                            !.RATE_LIMIT_MAX_REQUESTS = m] :
                       n \in {EnvUnset, EnvSet("production")},
                       m \in {EnvUnset, EnvSet("1")}}
  /\ config = ServerConfig(parseConfig(processEnv).config)
  /\ hits \in IF config.rateLimit.maxRequests > AuthMax
              THEN {NoHits, AfterAuthMaxRequests}
              ELSE {NoHits}
  /\ window = NoWindow
  /\ users = {}
  /\ nextId = 1
  /\ now = 0
  /\ req = [s \in Slots |-> IdleRequest]
  /\ held = Null
  /\ last = IdleRequest
  /\ arrivals = 0

ApiNext ==
  \/ \E s \in Slots : ApiRegister(s)
  \/ \E s \in Slots : RegisterFindOne(s)
  \/ \E s \in Slots : RegisterHash(s)
  \/ \E s \in Slots : RegisterCreate(s)
  \/ \E s \in Slots : ApiLogin(s)
  \/ \E s \in Slots : LoginFindOne(s)
  \/ \E s \in Slots : LoginCompare(s)
  \/ \E s \in Slots : ApiMe(s)
  \/ \E s \in Slots : MeFindById(s)
  \/ \E s \in Slots : ApiHealth(s)
  \/ \E s \in Slots : ApiNoRoute(s)

ApiSpec == ApiInit /\ [][ApiNext]_vars

\* ================================ the three auth routes, the clock at rest

\* The handlers of /api/auth as in Spec, interleaved over the slots, while
\* the clock stays where it is
RoutesNext ==
  \/ \E s \in Slots : ArriveRegister(s)
  \/ \E s \in Slots : RegisterFindOne(s)
  \/ \E s \in Slots : RegisterHash(s)
  \/ \E s \in Slots : RegisterCreate(s)
  \/ \E s \in Slots : ArriveLogin(s)
  \/ \E s \in Slots : LoginFindOne(s)
  \/ \E s \in Slots : LoginCompare(s)
  \/ \E s \in Slots : MeAuthenticate(s)
  \/ \E s \in Slots : MeFindById(s)

RoutesSpec == Init /\ [][RoutesNext]_vars

\* ============================ the auth routes over a database others use

\* A document leaves the collection: the account is deleted by another
\* client of the database (this application has no such operation)
DeleteAccount ==
  /\ \E u \in users : users' = users \ {u}
  /\ UNCHANGED <<window, processEnv, hits, config, nextId, now, req, held, last, arrivals>>

AccountsNext ==
  \/ \E s \in Slots : ArriveRegister(s)
  \/ \E s \in Slots : RegisterFindOne(s)
  \/ \E s \in Slots : RegisterHash(s)
  \/ \E s \in Slots : RegisterCreate(s)
  \/ \E s \in Slots : ArriveLogin(s)
  \/ \E s \in Slots : LoginFindOne(s)
  \/ \E s \in Slots : LoginCompare(s)
  \/ \E s \in Slots : MeAuthenticate(s)
  \/ \E s \in Slots : MeFindById(s)
  \/ DeleteAccount

AccountsSpec == Init /\ [][AccountsNext]_vars

\* ============================================= the auth gate on its own

\* The token and profile a client was given at time 0, before the run
IssuedAtStart(cfg, email) ==
  LET claims == [userId |-> ObjectId(1), email |-> email]
      t == generateJwtToken(claims, cfg, 0)
  IN [token |-> t.token,
      user |-> [id |-> ObjectId(1), email |-> email,
                firstName |-> "Ann", lastName |-> "Lee"],
      claims |-> claims, via |-> "register", at |-> 0]

\* authenticateJWT(req, res, next) on one request: its calls of next(),
\* req.user afterwards, and the response it sent (Null: none)
Authenticate(s) ==
  /\ Free(s)
  /\ arrivals' = arrivals + 1
  /\ \E h \in HeaderChoices :
       LET a == authenticateJWT(h, config, now)
           r == [IdleRequest EXCEPT !.kind = "gate", !.header = h,
                                    !.user = a.user, !.verifyCalls = a.verifyCalls,
                                    !.authAt = now,
                                    !.nextCalls = IF a.next THEN 1 ELSE 0]
       IN Done(s, r, "none", a.resp)
  /\ UNCHANGED <<window, processEnv, hits, config, users, nextId, now, held>>

\* A client holds nothing, or a token issued at time 0
GateInit ==
  /\ config = [jwtSecret |-> ServerSecret, jwtExpiresIn |-> "24h"]
  /\ held \in {Null} \cup {IssuedAtStart(config, e) : e \in Emails}
  /\ window = NoWindow
  /\ users = {}
  /\ nextId = 1
  /\ now = 0
  /\ req = [s \in Slots |-> IdleRequest]
  /\ last = IdleRequest
  /\ arrivals = 0
  /\ processEnv = BaseEnv(config.jwtExpiresIn)
  /\ hits = NoHits

\* The gate is synchronous: one connection shows all it does
GateNext ==
  \/ Authenticate(1)
  \/ Tick

GateSpec == GateInit /\ [][GateNext]_vars

\* ==================================== the application, the clock running

\* The routes as in ApiSpec, one request after another on one connection,
\* with time passing between them, so that the limiters' windows end
WindowNext ==
  \/ ApiRegister(1)
  \/ RegisterFindOne(1)
  \/ RegisterHash(1)
  \/ RegisterCreate(1)
  \/ ApiLogin(1)
  \/ LoginFindOne(1)
  \/ LoginCompare(1)
  \/ ApiMe(1)
  \/ MeFindById(1)
  \/ ApiHealth(1)
  \/ ApiNoRoute(1)
  \/ Tick

WindowSpec == ApiInit /\ [][WindowNext]_vars

\* ===================================================== the web client

\* Tokens the pages store, HTTP statuses the API answers with, and pages
Tokens == {"", "t1", "t2"}
Statuses == {200, 401, 500}
Pages == {"/", "/login", "/dashboard"}

\* What the client did last: the operation, the token it was given, the
\* status of the response received
ClientDid(kind, token, status) ==
  last' = [IdleRequest EXCEPT !.kind = kind, !.pc = "done", !.svcArg = token,
                              !.resp = [status |-> status]]

SetToken ==
  /\ \E t \in Tokens :
       /\ window' = setToken(window, t)
       /\ ClientDid("setToken", t, 0)
  /\ UNCHANGED <<processEnv, hits, config, users, nextId, now, req, held, arrivals>>

RemoveToken ==
  /\ window' = removeToken(window)
  /\ ClientDid("removeToken", "", 0)
  /\ UNCHANGED <<processEnv, hits, config, users, nextId, now, req, held, arrivals>>

Logout ==
  /\ window' = logout(window)
  /\ ClientDid("logout", "", 0)
  /\ UNCHANGED <<processEnv, hits, config, users, nextId, now, req, held, arrivals>>

\* A request leaves through the authenticated api client: the
\* beforeRequest hook sets Authorization when a token is stored
ApiRequest(s) ==
  /\ req[s].pc = "idle"
  /\ req' = [req EXCEPT ![s] =
               [IdleRequest EXCEPT !.kind = "api", !.pc = "sent",
                                   !.header = beforeRequest(window)]]
  /\ UNCHANGED <<window, processEnv, hits, config, users, nextId, now, held, last,
                 arrivals>>

\* Its response arrives: the afterResponse hook
ApiResponse(s) ==
  /\ req[s].pc = "sent"
  /\ \E status \in Statuses :
       /\ window' = afterResponse(window, status)
       /\ last' = [req[s] EXCEPT !.pc = "done", !.resp = [status |-> status]]
  /\ req' = [req EXCEPT ![s] = IdleRequest]
  /\ UNCHANGED <<processEnv, hits, config, users, nextId, now, held, arrivals>>

\* The user opens a page; the dashboard runs useAuthGuard
OpenPage ==
  /\ window # NoWindow
  /\ \E p \in Pages :
       LET w == [window EXCEPT !.location.href = p] IN
       /\ window' = IF p = "/dashboard" THEN useAuthGuard(w) ELSE w
       /\ ClientDid("page", "", 0)
  /\ UNCHANGED <<processEnv, hits, config, users, nextId, now, req, held, arrivals>>

\* The module is loaded in a browser whose storage is empty or holds a
\* token of an earlier visit, or on the server
WebInit ==
  /\ window \in {NoWindow, Browser(NoItem, "/"), Browser(Item("t1"), "/")}
  /\ config = Null
  /\ users = {}
  /\ nextId = 1
  /\ now = 0
  /\ req = [s \in Slots |-> IdleRequest]
  /\ held = Null
  /\ last = IdleRequest
  /\ arrivals = 0
  /\ processEnv = BaseEnv("24h")
  /\ hits = NoHits

WebNext ==
  \/ SetToken
  \/ RemoveToken
  \/ Logout
  \/ \E s \in Slots : ApiRequest(s)
  \/ \E s \in Slots : ApiResponse(s)
  \/ OpenPage

WebSpec == WebInit /\ [][WebNext]_vars

\* ============================================================ properties

\* Every request the properties speak of: those in flight and the one
\* that finished last
Records == {req[s] : s \in Slots} \cup {last}

Finished(kind) == last.pc = "done" /\ last.kind = kind

\* What a signed, well-formed token is, from the token's text alone
WellFormed(token) ==
  LET parts == Split(token, ".") IN
  /\ Len(parts) = 3
  /\ parts[1] = JwtHeaderSeg
  /\ JwtParsePayload(parts[2]) # Null

ServerSigned(token) ==
  LET parts == Split(token, ".") IN
  /\ WellFormed(token)
  /\ parts[3] = Hmac(ServerSecret, parts[1], parts[2])

\* The credential an Authorization header value carries: what follows
\* "Bearer ", or the whole value when it does not begin with "Bearer "
BearerToken(value) ==
  IF Len(value) >= 7 /\ SubSeq(value, 1, 7) = "Bearer "
  THEN (IF Len(value) = 7 THEN "" ELSE SubSeq(value, 8, Len(value)))
  ELSE value

ClaimsIn(token) == JwtParsePayload(Split(token, ".")[2])

InvalidCredentials == [status |-> 401, body |-> [error |-> "Invalid email or password"]]

\* C1: a login whose email matches no stored user and a login whose email
\* matches a stored user but whose password does not both get the same
\* response, 401 {error: "Invalid email or password"}.
C1_LoginFailuresIndistinguishable ==
  (/\ Finished("login")
   /\ ~last.dbErr
   /\ \/ last.loc = Null
      \/ ~BcryptCompare(last.body.password, last.loc.password))
  => last.resp = InvalidCredentials

\* C1 witness: a login with a stored user's email and another password
\* was answered.
C1_Witness ==
  /\ Finished("login")
  /\ ~last.dbErr
  /\ last.loc # Null
  /\ \E u \in users : u.email = last.body.email /\ u = last.loc
  /\ ~BcryptCompare(last.body.password, last.loc.password)
  /\ last.resp.status = 401

\* C2: the /me handler and getUserProfile run only for a request whose
\* token verifyJwtToken accepted (signed by the server, unexpired when
\* checked), with req.user and the userId argument taken from that token.
C2_MeOnlyAfterVerification ==
  \A r \in Records :
    (r.kind = "me" /\ (r.handlerRan \/ r.dbReads > 0 \/ r.svcArg # "" \/ r.pc = "me_find"))
    => /\ r.header.present
       /\ ServerSigned(BearerToken(r.header.value))
       /\ ClaimsIn(BearerToken(r.header.value)).exp > r.authAt
       /\ r.verifyCalls = 1
       /\ r.user = ClaimsIn(BearerToken(r.header.value))
       /\ r.svcArg = ClaimsIn(BearerToken(r.header.value)).userId

\* C2 witness: a /me request with a verified token reached the
\* persistence layer.
C2_Witness ==
  /\ Finished("me")
  /\ last.handlerRan
  /\ last.dbReads = 1
  /\ last.resp.status = 200

\* C3: the user collection holds at most one document per email.
C3_EmailUnique ==
  \A u1 \in users, u2 \in users : u1.email = u2.email => u1 = u2

\* C3 witness: two registrations of one email both passed the existence
\* lookup; the second write was refused by the index.
C3_Witness ==
  /\ Finished("register")
  /\ ~last.dbErr
  /\ ~last.existed
  /\ last.createCalls = 1
  /\ last.inserted = 0
  /\ \E u \in users : u.email = last.body.email

\* C4: of two sequential registrations of one email the first is answered
\* 201 with a token, the second 409.
C4_SecondRegistrationConflict ==
  Finished("register") =>
    /\ (last.svc = "ok" /\ Timespan(config.jwtExpiresIn) >= 0)
         => (last.resp.status = 201 /\ last.resp.body.token # "")
    /\ (last.existed /\ ~last.dbErr) => last.resp.status = 409

\* C5: register makes exactly one persisted write when it succeeds and
\* none when it fails with Conflict.
C5_RegisterWrites ==
  Finished("register") =>
    /\ last.svc = "ok" =>
         /\ last.createCalls = 1
         /\ last.inserted = 1
         /\ \E u \in users : u.email = last.body.email
                               /\ u.firstName = last.body.firstName
                               /\ u.lastName = last.body.lastName
    /\ last.svc = "ConflictError" => (last.createCalls = 0 /\ last.inserted = 0)

\* C5 witness: a registration failed with Conflict after another had
\* succeeded.
C5_Witness ==
  /\ Finished("register")
  /\ last.svc = "ConflictError"
  /\ Cardinality(users) = 1

\* C6: a request without an Authorization header is answered 401
\* {error: "Authorization header missing"}; verifyJwtToken is not called
\* and the handler does not run.
C6_MissingHeaderRejected ==
  \A r \in Records :
    (r.kind = "me" /\ ~r.header.present) =>
      /\ r.pc = "done"
      /\ r.verifyCalls = 0
      /\ ~r.handlerRan
      /\ r.dbReads = 0
      /\ r.pc = "done" =>
           r.resp = [status |-> 401, body |-> [error |-> "Authorization header missing"]]

\* C6 witness: a request without the header was answered.
C6_Witness == Finished("me") /\ ~last.header.present /\ last.resp.status = 401

TokenMissing == [status |-> 401, body |-> [error |-> "Token missing"]]

\* C7 as stated: every present header that is empty once "Bearer " is
\* stripped, the empty header value included, is answered 401
\* {error: "Token missing"}.
C7_EmptyTokenAlwaysTokenMissing ==
  (Finished("me") /\ last.header.present /\ last.header.value \in {"Bearer ", ""})
  => last.resp = TokenMissing

\* C7 amended: a non-empty header that is empty once "Bearer " is stripped
\* (the value "Bearer ") is answered 401 {error: "Token missing"}; the
\* empty header value is answered 401 {error: "Authorization header
\* missing"}. Neither reaches verification or the handler.
C7_BearerOnlyTokenMissing ==
  (Finished("me") /\ last.header.present /\ last.header.value \in {"Bearer ", ""})
  => /\ last.header.value = "Bearer " => last.resp = TokenMissing
     /\ last.header.value = "" =>
          last.resp = [status |-> 401, body |-> [error |-> "Authorization header missing"]]
     /\ last.verifyCalls = 0
     /\ ~last.handlerRan

\* C7 witness: the header "Bearer " was answered.
C7_Witness ==
  Finished("me") /\ last.header = Header("Bearer ") /\ last.resp.status = 401

Unauthorized(message) == [status |-> 401, body |-> [error |-> message]]

\* Whether verifyJwtToken returned claims for the request
Verified(r) == r.user # Null

\* C8 as stated: verifyJwtToken returns the claims or fails with
\* "Authentication token expired" or "Invalid authentication token", and
\* has no other outcome.
C8_VerifyTwoFailuresOnly ==
  \A r \in Records :
    (r.kind = "me" /\ r.verifyCalls = 1) =>
      \/ Verified(r)
      \/ r.resp \in {Unauthorized("Authentication token expired"),
                     Unauthorized("Invalid authentication token")}

\* C8 amended: verifyJwtToken returns the claims of a server-signed,
\* unexpired token, and otherwise fails with Unauthorized (401) carrying
\* one of three messages: "Authentication token expired" for a
\* server-signed token whose expiry the clock has reached, "Invalid
\* authentication token" when the signature or format check fails, and
\* "Authentication failed" for any other error of the library (a payload
\* that is not JSON).
C8_VerifyThreeFailures ==
  \A r \in Records :
    (r.kind = "me" /\ r.verifyCalls = 1) =>
      LET token == BearerToken(r.header.value) IN
      /\ Verified(r) <=> (ServerSigned(token) /\ ClaimsIn(token).exp > r.authAt)
      /\ Verified(r) => r.user = ClaimsIn(token)
      /\ ~Verified(r) =>
           /\ r.pc = "done"
           /\ ServerSigned(token) =>
                r.resp = Unauthorized("Authentication token expired")
           /\ (WellFormed(token) /\ ~ServerSigned(token)) =>
                r.resp = Unauthorized("Invalid authentication token")
           /\ (Len(Split(token, ".")) = 3 /\ Split(token, ".")[1] = JwtHeaderSeg
               /\ ~WellFormed(token)) =>
                r.resp = Unauthorized("Authentication failed")
           /\ r.resp \in {Unauthorized("Authentication token expired"),
                          Unauthorized("Invalid authentication token"),
                          Unauthorized("Authentication failed")}

\* C8 witness: a verification ended with the third failure.
C8_Witness ==
  /\ Finished("me")
  /\ last.verifyCalls = 1
  /\ last.resp = Unauthorized("Authentication failed")

\* The configured lifetime has not elapsed since the held token was issued
HeldFresh == now < held.at + Timespan(config.jwtExpiresIn)

\* C9 as stated: verifyJwtToken(generateJwtToken(c)) returns c before the
\* lifetime has elapsed, and fails as expired once it has.
C9_RoundTripReturnsClaims ==
  held # Null =>
    LET v == verifyJwtToken(held.token, config, now) IN
    /\ HeldFresh => (v.ok /\ v.decoded = held.claims)
    /\ ~HeldFresh =>
         (~v.ok /\ v.error = UnauthorizedError("Authentication token expired"))

\* C9 amended: before the lifetime has elapsed verifyJwtToken(
\* generateJwtToken(c)) returns an object whose userId and email are c's,
\* together with the iat and exp that signing added (so it is not c
\* itself); once the lifetime has elapsed it fails as expired.
C9_RoundTripKeepsClaims ==
  held # Null =>
    LET v == verifyJwtToken(held.token, config, now) IN
    /\ HeldFresh =>
         /\ v.ok
         /\ v.decoded.userId = held.claims.userId
         /\ v.decoded.email = held.claims.email
         /\ v.decoded = [userId |-> held.claims.userId, email |-> held.claims.email,
                         iat |-> held.at,
                         exp |-> held.at + Timespan(config.jwtExpiresIn)]
    /\ ~HeldFresh =>
         (~v.ok /\ v.error = UnauthorizedError("Authentication token expired"))

\* C9 witness: a generated token whose lifetime has just elapsed.
C9_Witness ==
  /\ held # Null
  /\ now = held.at + Timespan(config.jwtExpiresIn)
  /\ held.claims.email \in Emails

\* C10: /me with the token a registration returned, before the token
\* expires and with the user stored, is answered 200 with the profile the
\* registration returned.
C10_MeReturnsRegisteredProfile ==
  (/\ Finished("me")
   /\ held # Null
   /\ held.via = "register"
   /\ last.header = Header("Bearer " \o held.token)
   /\ last.authAt < held.at + Timespan(config.jwtExpiresIn)
   /\ ~last.dbErr
   /\ \E u \in users : u.id = held.user.id)
  => last.resp = [status |-> 200, body |-> held.user]

\* C10 witness: such a /me request was answered 200.
C10_Witness ==
  /\ Finished("me")
  /\ held # Null
  /\ held.via = "register"
  /\ last.header = Header("Bearer " \o held.token)
  /\ last.resp.status = 200
  /\ last.resp.body.firstName \in FirstNames

\* The password a stored document was registered with: the p whose salted
\* hash the document holds
RegisteredPassword(u) ==
  CHOOSE p \in RegisterPasswords :
    \E salt \in Salts : u.password = "$2b$10$" \o salt \o "$" \o p

\* The public profile and identifier of a stored document
PublicResult(u) ==
  [userId |-> u.id,
   user |-> [id |-> u.id, email |-> u.email,
             firstName |-> u.firstName, lastName |-> u.lastName]]

\* C11: once register(e, p, ...) has stored a user, login(e, q) with a
\* working database returns that user's identifier and public profile if
\* q = p, and otherwise throws Unauthorized "Invalid email or password";
\* it succeeds for no other q.
C11_LoginIffPasswordMatches ==
  (/\ Finished("login")
   /\ ~last.dbErr
   /\ \E u \in users : u.email = last.body.email)
  => LET u == CHOOSE u \in users : u.email = last.body.email IN
     /\ (last.svc = "ok") <=> (last.body.password = RegisteredPassword(u))
     /\ last.body.password = RegisteredPassword(u) =>
          (last.svcRes = PublicResult(u) /\ last.svcErr = Null)
     /\ last.body.password # RegisteredPassword(u) =>
          /\ last.svcRes = Null
          /\ last.svcErr = [name |-> "UnauthorizedError",
                            message |-> "Invalid email or password",
                            statusCode |-> 401, isOperational |-> TRUE,
                            details |-> Null]

\* C11 witness: after a registration, a login with the registered password
\* succeeded.
C11_Witness ==
  /\ Finished("login")
  /\ \E u \in users : u.email = last.body.email
                        /\ last.body.password = RegisteredPassword(u)
                        /\ last.svcRes = PublicResult(u)
  /\ last.resp.status = 200

\* What the schema reports for the slot a finished validation was about
ReportedIssues(r) ==
  IF SafeParse(SchemaNamed(r.schema), r.received[r.target]).success THEN <<>>
  ELSE SafeParse(SchemaNamed(r.schema), r.received[r.target]).issues

\* The keys of the schema whose constraint the slot's value violates
ViolatedKeys(r) ==
  LET schema == SchemaNamed(r.schema)
      data == r.received[r.target] IN
  IF TypeOf(data) # "object" THEN {}
  ELSE {schema[i].key : i \in {i \in 1..Len(schema) :
          LET v == Field(data.object, schema[i].key) IN
          \/ TypeOf(v) # "string"
          \/ schema[i].check = "email" /\ ~IsEmail(v.string)
          \/ schema[i].check = "min" /\ Len(v.string) < schema[i].min}}

\* C13: on validation failure details holds exactly one {path, message}
\* entry per issue the schema reports, all of them and in the schema's
\* order, with path the issue's path segments joined by "."; a body
\* violating N constraints gets N entries.
C13_DetailsListEveryIssue ==
  (Finished("validate") /\ last.nextCalls = 0) =>
    LET issues == ReportedIssues(last)
        details == last.resp.body.details IN
    /\ TypeOf(details) = "array"
    /\ Len(details.array) = Len(issues)
    /\ \A i \in 1..Len(issues) :
         details.array[i] = [path |-> Join(issues[i].path, "."),
                             message |-> issues[i].message]
    /\ TypeOf(last.received[last.target]) = "object" =>
         /\ Len(details.array) = Cardinality(ViolatedKeys(last))
         /\ {details.array[i].path : i \in 1..Len(details.array)} = ViolatedKeys(last)

\* C13 witness: a registration body that violates all four constraints
\* was answered with four entries, in the schema's order.
C13_Witness ==
  /\ Finished("validate")
  /\ last.schema = "register"
  /\ last.target = "body"
  /\ last.resp # Null
  /\ last.resp.body.details.array =
       <<[path |-> "email", message |-> "Invalid email address"],
         [path |-> "password", message |-> "Password must be at least 6 characters"],
         [path |-> "firstName", message |-> "First name is required"],
         [path |-> "lastName", message |-> "Last name is required"]>>

\* C14: the middleware either assigns the schema's parsed result to the
\* whole targeted slot and calls next(), or, when the schema rejects the
\* slot, leaves it as received and does not call next(); the two other
\* slots are as received in both cases.
C14_WholeSlotOrNothing ==
  Finished("validate") =>
    LET parsed == SafeParse(SchemaNamed(last.schema), last.received[last.target]) IN
    /\ \A t \in Targets \ {last.target} : last.slots[t] = last.received[t]
    /\ parsed.success =>
         /\ last.slots[last.target] = parsed.data
         /\ DOMAIN last.slots[last.target].object =
              {SchemaNamed(last.schema)[i].key : i \in 1..Len(SchemaNamed(last.schema))}
         /\ last.nextCalls = 1
    /\ ~parsed.success =>
         /\ last.slots[last.target] = last.received[last.target]
         /\ last.nextCalls = 0

\* C14 witness: a query with a key the schema does not know was replaced
\* by the parsed result, while body and params stayed as received.
C14_Witness ==
  /\ Finished("validate")
  /\ last.target = "query"
  /\ last.nextCalls = 1
  /\ "page" \in DOMAIN last.received.query.object
  /\ "page" \notin DOMAIN last.slots.query.object
  /\ last.slots.body = last.received.body
  /\ "role" \in DOMAIN last.received.body.object

\* The classes of part_004: AppError and what extends it
Recognized(err) ==
  \/ err.name = "AppError"
  \/ err.name \in {"BadRequestError", "UnauthorizedError", "ForbiddenError",
                   "NotFoundError", "ConflictError", "InternalServerError"}
  \/ err.name = "TokenExpiredError"

\* C15: errorHandler answers an AppError (or subclass) with the error's own
\* statusCode and message, and any other thrown value with 500 and
\* "Internal server error", whatever message or status the value carries.
C15_StatusAndMessageByClass ==
  Finished("error") =>
    /\ Recognized(last.thrown) =>
         /\ last.resp.status = last.thrown.statusCode
         /\ last.resp.body.error = last.thrown.message
    /\ ~Recognized(last.thrown) =>
         /\ last.resp.status = 500
         /\ last.resp.body.error = "Internal server error"

\* C15 witness: a library error carrying its own status 400 and message
\* was answered 500 with the generic message.
C15_Witness ==
  /\ Finished("error")
  /\ last.thrown.name = "SyntaxError"
  /\ last.thrown.statusCode = 400
  /\ last.resp.status = 500
  /\ last.resp.body.error = "Internal server error"

\* C16: in production the body errorHandler sends for an InternalServerError
\* holds the error message and nothing else: no details (the wrapped backend
\* error) and no stack.
C16_ProductionBodyIsMessageOnly ==
  (/\ Finished("error")
   /\ config.nodeEnv = "production"
   /\ last.thrown.name = "InternalServerError")
  => /\ last.resp.status = 500
     /\ DOMAIN last.resp.body = {"error"}

\* C17 as stated: in development and in test, the response for an
\* unclassified error that has a stack carries details with a stack field.
C17_StackInEveryNonProduction ==
  (/\ Finished("error")
   /\ config.nodeEnv \in {"development", "test"}
   /\ ~Recognized(last.thrown)
   /\ ("stack" \in DOMAIN last.thrown => last.thrown.stack # ""))
  => /\ "details" \in DOMAIN last.resp.body
     /\ "stack" \in DOMAIN last.resp.body.details

\* C17 amended: the stack is merged in when the environment is development
\* only; in test, as in production, the response for an unclassified error
\* is {error: "Internal server error"} with no details.
C17_StackInDevelopmentOnly ==
  (/\ Finished("error")
   /\ ~Recognized(last.thrown)
   /\ ("stack" \in DOMAIN last.thrown => last.thrown.stack # ""))
  => /\ config.nodeEnv = "development" =>
          /\ "details" \in DOMAIN last.resp.body
          /\ DOMAIN last.resp.body.details = {"stack"}
          /\ last.resp.body.details.stack # ""
     /\ config.nodeEnv \in {"test", "production"} =>
          last.resp = [status |-> 500, body |-> [error |-> "Internal server error"]]

\* C17 witness: in development an unclassified error with a stack was
\* answered with details.stack.
C17_Witness ==
  /\ Finished("error")
  /\ config.nodeEnv = "development"
  /\ last.thrown = [name |-> "Error", message |-> "boom"]
  /\ "details" \in DOMAIN last.resp.body
  /\ "stack" \in DOMAIN last.resp.body.details

\* The string writes a positive integer: digits only, not all zero
PositiveIntegerText(text) ==
  /\ text # ""
  /\ \A i \in 1..Len(text) : \E d \in 0..9 : SubSeq(text, i, i) = ToString(d)
  /\ \E i \in 1..Len(text) : SubSeq(text, i, i) # "0"

\* A variable that was given a value
Supplied(v) == v.set /\ v.value # ""

\* The conditions under which loading is said to fail
ListedConfigFault(env) ==
  \/ ~Supplied(env.MONGODB_URI)
  \/ ~env.JWT_SECRET.set \/ Len(env.JWT_SECRET.value) < 32
  \/ ~env.FRONTEND_URL.set \/ env.FRONTEND_URL.value \notin {"http://localhost:3000"}
  \/ Supplied(env.RATE_LIMIT_WINDOW_MS)
       /\ ~PositiveIntegerText(env.RATE_LIMIT_WINDOW_MS.value)
  \/ Supplied(env.RATE_LIMIT_MAX_REQUESTS)
       /\ ~PositiveIntegerText(env.RATE_LIMIT_MAX_REQUESTS.value)

\* C19: loading the configuration throws whenever the database connection
\* string is missing or empty, the token secret is missing or shorter than
\* 32 characters, the frontend origin is missing or no URL, or a supplied
\* rate-limit value is not a positive integer; otherwise it yields a config
\* whose unset optional fields have their defaults (port 4000, lifetime
\* "24h", window 15 minutes, maximum 100).
C19_ConfigFailsOnListedFaultsOnly ==
  config # Null =>
    /\ ListedConfigFault(processEnv) => ~config.ok
    /\ ~ListedConfigFault(processEnv) =>
         /\ config.ok
         /\ ~processEnv.PORT.set => config.config.port = "4000"
         /\ ~processEnv.JWT_EXPIRES_IN.set => config.config.jwt.expiresIn = "24h"
         /\ ~Supplied(processEnv.RATE_LIMIT_WINDOW_MS) =>
              config.config.rateLimit.windowMs = 900000
         /\ ~Supplied(processEnv.RATE_LIMIT_MAX_REQUESTS) =>
              config.config.rateLimit.maxRequests = 100

\* C12: when the schema rejects the body, the validation middleware
\* answers 400 {error: "Invalid request data", details: <violations>},
\* does not call next(), and neither the route handler nor the auth
\* service (no lookup, no hash, no write) runs for the request.
C12_RejectedBodyStopsAtMiddleware ==
  \A r \in Records :
    (r.schema # "" /\ Len(ReportedIssues(r)) > 0) =>
      /\ r.pc = "done"
      /\ r.resp.status = 400
      /\ DOMAIN r.resp.body = {"error", "details"}
      /\ r.resp.body.error = "Invalid request data"
      /\ Len(r.resp.body.details.array) = Len(ReportedIssues(r))
      /\ r.nextCalls = 0
      /\ ~r.handlerRan
      /\ r.svc = "none"
      /\ r.dbReads = 0 /\ r.hashCalls = 0 /\ r.createCalls = 0
      /\ r.body = Null

\* C12 witness: a registration without an email was answered 400 while a
\* valid registration had stored its user.
C12_Witness ==
  /\ Finished("register")
  /\ last.schema = "register"
  /\ "email" \notin DOMAIN last.received.body.object
  /\ last.resp.status = 400
  /\ ~last.handlerRan
  /\ users # {}

\* C18: every response with status 400 or more, whichever part of the
\* application sent it, has a body with a non-empty string under "error".
C18_FailuresCarryError ==
  (last.pc = "done" /\ last.resp # Null /\ last.resp.status >= 400) =>
    /\ "error" \in DOMAIN last.resp.body
    /\ last.resp.body.error # ""
    /\ Len(last.resp.body.error) > 0

\* C18 witness: the authentication rate limiter answered 429.
C18_Witness ==
  /\ last.pc = "done"
  /\ last.authHits > AuthMax
  /\ last.resp.status = 429
  /\ "error" \in DOMAIN last.resp.body

HealthOk == [status |-> 200, body |-> [status |-> "ok", message |-> "API is running"]]

C21_LookupThenHashThenWrite ==
  /\ \A r \in Records :
       r.kind = "register" =>
         /\ r.pc = "reg_find" => (r.dbReads = 0 /\ r.hashCalls = 0 /\ r.createCalls = 0)
         /\ r.pc = "reg_hash" => (r.dbReads = 1 /\ r.hashCalls = 0 /\ r.createCalls = 0)
         /\ r.pc = "reg_create" => (r.dbReads = 1 /\ r.hashCalls = 1 /\ r.createCalls = 0)
         /\ r.svc = "ConflictError" => (r.hashCalls = 0 /\ r.createCalls = 0)
         /\ r.existed => (r.hashCalls = 0 /\ r.createCalls = 0)
         /\ r.createCalls <= 1
         /\ r.createCalls = 1 => (r.hashCalls = 1 /\ r.dbReads = 1)
  /\ (Finished("register") /\ last.inserted = 1) =>
       \E u \in users :
         /\ u.email = last.body.email
         /\ u.password = last.loc.hashedPassword
         /\ u.password # last.body.password
  /\ \A u \in users : u.password \notin RegisterPasswords

\* C21 witness: a registration whose lookup found none has hashed, written
\* once, and left its hash in the collection.
C21_Witness ==
  /\ Finished("register")
  /\ last.dbReads = 1 /\ last.hashCalls = 1 /\ last.createCalls = 1
  /\ last.inserted = 1
  /\ \E u \in users : u.password = last.loc.hashedPassword

\* The one response of the register route's catch
RegisterFailed == [status |-> 500, body |-> [error |-> "Failed to register user"]]

\* C22: a POST /api/auth/register that reaches its handler with an email
\* already stored is answered 500 {error: "Failed to register user"}, not
\* 409; and so is every request whose service call threw (Conflict or
\* InternalServer) or whose token generation threw.
C22_RegisterFailuresAre500 ==
  Finished("register") =>
    /\ last.existed => last.resp = RegisterFailed
    /\ last.svcErr # Null => last.resp = RegisterFailed
    /\ (last.svcRes # Null /\ Timespan(config.jwtExpiresIn) < 0)
         => last.resp = RegisterFailed
    /\ last.resp.status \in {201, 500}
    /\ last.resp.status = 500 => last.resp = RegisterFailed

\* C22 witness: a registration for a stored email, which the service
\* refused with Conflict (409), was answered 500.
C22_Witness ==
  /\ Finished("register")
  /\ last.existed
  /\ last.svcErr # Null
  /\ last.svcErr.name = "ConflictError"
  /\ last.svcErr.statusCode = 409
  /\ last.resp = RegisterFailed

\* The one response of the login route's catch
LoginFailed == [status |-> 401, body |-> [error |-> "Invalid email or password"]]

\* C23: once validation has passed, POST /api/auth/login is answered 200
\* or 401 and nothing else; every failure inside the handler (Unauthorized
\* from the service, InternalServer from the service after a persistence
\* failure, a token-generation failure) is answered 401
\* {error: "Invalid email or password"}.
C23_LoginAnswers200Or401 ==
  Finished("login") =>
    /\ last.resp.status \in {200, 401}
    /\ last.resp.status = 401 => last.resp = LoginFailed
    /\ last.svcErr # Null => last.resp = LoginFailed
    /\ last.dbErr =>
         (/\ last.svcErr # Null
          /\ last.svcErr.name = "InternalServerError"
          /\ last.resp = LoginFailed)
    /\ (last.svcRes # Null /\ Timespan(config.jwtExpiresIn) < 0)
         => last.resp = LoginFailed
    /\ (last.svcRes # Null /\ Timespan(config.jwtExpiresIn) >= 0)
         => last.resp.status = 200

\* C23 witness: a login during which the database failed was answered 401.
C23_Witness ==
  /\ Finished("login")
  /\ last.dbErr
  /\ last.svcErr # Null
  /\ last.svcErr.name = "InternalServerError"
  /\ last.svcErr.message = "Failed to login"
  /\ last.resp = LoginFailed

\* A login whose token generation threw after the service had returned was
\* answered 401.
C23_TokenFailureWitness ==
  /\ Finished("login")
  /\ last.svcRes # Null
  /\ Timespan(config.jwtExpiresIn) < 0
  /\ last.resp = LoginFailed

\* An error of the given class, message and status, as the service throws it
Classified(err, name, message, statusCode) ==
  /\ err.name = name
  /\ err.message = message
  /\ err.statusCode = statusCode

\* C24: an auth service method that fails throws its own classified error
\* or InternalServer: register Conflict or InternalServer("Failed to
\* register user"), login Unauthorized or InternalServer("Failed to
\* login"), getUserProfile Unauthorized (when no user has the identifier)
\* or InternalServer("Failed to fetch user profile"); a failure of the
\* database is always thrown as InternalServer, never as it was raised.
C24_ServiceErrorsClassified ==
  (last.pc = "done" /\ last.svcErr # Null) =>
    /\ last.svcErr.name # "MongoError"
    /\ last.kind = "register" =>
         \/ Classified(last.svcErr, "ConflictError",
                       "User with this email already exists", 409)
         \/ Classified(last.svcErr, "InternalServerError",
                       "Failed to register user", 500)
    /\ last.kind = "login" =>
         \/ Classified(last.svcErr, "UnauthorizedError",
                       "Invalid email or password", 401)
         \/ Classified(last.svcErr, "InternalServerError", "Failed to login", 500)
    /\ last.kind = "me" =>
         \/ /\ Classified(last.svcErr, "UnauthorizedError", "User not found", 401)
            /\ \A u \in users : u.id # last.svcArg
         \/ Classified(last.svcErr, "InternalServerError",
                       "Failed to fetch user profile", 500)
    /\ last.dbErr => last.svcErr.name = "InternalServerError"

\* C24 witness: getUserProfile met a failing database and threw
\* InternalServer("Failed to fetch user profile").
C24_Witness ==
  /\ Finished("me")
  /\ last.dbErr
  /\ last.svcErr # Null
  /\ Classified(last.svcErr, "InternalServerError",
                "Failed to fetch user profile", 500)

\* C25: GET /api/auth/me with a valid, unexpired token whose userId matches
\* no stored user (the database answering) is answered 401.
C25_MissingUserIs401 ==
  (/\ Finished("me")
   /\ last.verifyCalls = 1
   /\ last.user # Null
   /\ last.dbReads = 1
   /\ ~last.dbErr
   /\ \A u \in users : u.id # last.user.userId)
  => last.resp.status = 401

\* C26: authenticateJWT ends every request in exactly one of two ways.
\* Authenticated: next() called once, no response sent, req.user the
\* claims of the server-signed, unexpired token the header carried.
\* Rejected: one response sent (401, or 500 {error: "Authentication
\* failed"}), next() not called, req.user not set.
C26_GateEndsOneWay ==
  Finished("gate") =>
    \/ /\ last.nextCalls = 1
       /\ last.resp = Null
       /\ last.verifyCalls = 1
       /\ last.header.present
       /\ ServerSigned(BearerToken(last.header.value))
       /\ ClaimsIn(BearerToken(last.header.value)).exp > last.authAt
       /\ last.user = ClaimsIn(BearerToken(last.header.value))
    \/ /\ last.nextCalls = 0
       /\ last.resp # Null
       /\ \/ last.resp.status = 401
          \/ last.resp = [status |-> 500, body |-> [error |-> "Authentication failed"]]
       /\ last.resp.body.error # ""
       /\ last.user = Null

\* C26 witness: the gate let a request with a held token through.
C26_Witness ==
  /\ Finished("gate")
  /\ last.nextCalls = 1
  /\ last.resp = Null
  /\ last.user # Null
  /\ last.user.userId = ObjectId(1)

\* The gate rejected a request whose token had expired.
C26_RejectedWitness ==
  /\ Finished("gate")
  /\ last.nextCalls = 0
  /\ last.resp = [status |-> 401, body |-> [error |-> "Authentication token expired"]]

\* The request that arrives in a step: its record once the step is over
NewRequest ==
  IF \E s \in Slots : req[s].pc = "idle" /\ req'[s].pc # "idle"
  THEN req'[CHOOSE s \in Slots : req[s].pc = "idle" /\ req'[s].pc # "idle"]
  ELSE last'

\* A request to a route of /api/auth arrives in the step
AuthRouteArrives ==
  /\ arrivals' = arrivals + 1
  /\ NewRequest.kind \in {"register", "login", "me"}

\* Before the step, the client's window of the auth limiter is open and
\* AuthMax or more of its requests have been counted in it
AuthWindowFull == now < hits.auth.resetAt /\ hits.auth.count >= AuthMax

\* The request ended before validation, the auth gate, any handler and the
\* auth service
Stopped(r) ==
  /\ r.pc = "done"
  /\ r.resp # Null
  /\ r.slots = Null /\ r.nextCalls = 0
  /\ r.verifyCalls = 0 /\ r.user = Null
  /\ ~r.handlerRan
  /\ r.dbReads = 0 /\ r.hashCalls = 0 /\ r.createCalls = 0
  /\ r.svc = "none" /\ r.svcRes = Null /\ r.svcErr = Null

\* C27 as stated: a request to /api/auth/* that arrives when AuthMax
\* requests of its client have been counted in the open window is answered
\* 429 and reaches neither validation nor a handler nor the auth service.
C27_FullWindowAnswers429 ==
  [][(AuthRouteArrives /\ AuthWindowFull)
       => (Stopped(NewRequest) /\ NewRequest.resp.status = 429)]_vars

\* What the limiters do ensure under /api/auth: a request that arrives in a
\* full window is stopped before validation, the gate, the handlers and the
\* service, answered 429, or 500 {error: "Internal server error"} when its
\* body is no JSON; a request that is not stopped is the first of a new
\* window or follows fewer than AuthMax counted ones.
AuthWindowAdmitsAtMostMax ==
  [][/\ (AuthRouteArrives /\ AuthWindowFull) =>
          /\ Stopped(NewRequest)
          /\ \/ NewRequest.resp.status = 429
             \/ /\ ~NewRequest.jsonOk
                /\ NewRequest.resp.status = 500
                /\ NewRequest.resp.body.error = "Internal server error"
     /\ (AuthRouteArrives /\ ~Stopped(NewRequest)) =>
          /\ ~AuthWindowFull
          /\ hits'.auth.count =
               IF now >= hits.auth.resetAt THEN 1 ELSE hits.auth.count + 1
          /\ hits'.auth.count <= AuthMax]_vars

\* C28: a POST /api/auth/register answered with a failure status has
\* persisted no user, also when the failure is a token-generation error
\* raised after authService.register returned.
C28_FailedRegisterPersistsNothing ==
  (Finished("register") /\ last.resp.status >= 400) =>
    /\ last.inserted = 0
    /\ last.svcRes = Null \/ \A u \in users : u.id # last.svcRes.userId

\* The stored documents with the email
WithEmail(email) == {u \in users : u.email = email}

\* C29: when two register requests for one email not yet stored both pass
\* the lookup before either writes, one write succeeds and the unique
\* index rejects the other; the losing request, whose lookup found none
\* and whose database calls all went through, fails with InternalServer
\* "Failed to register user" (not Conflict) and is answered 500
\* {error: "Failed to register user"}. No email is ever stored twice.
C29_RaceLoserGetsInternalServer ==
  /\ \A e \in Emails : Cardinality(WithEmail(e)) <= 1
  /\ (/\ Finished("register")
      /\ last.createCalls = 1
      /\ last.inserted = 0
      /\ ~last.dbErr)
     => /\ ~last.existed
        /\ last.dbReads = 1 /\ last.hashCalls = 1
        /\ Cardinality(WithEmail(last.body.email)) = 1
        /\ last.svcErr # Null
        /\ last.svcErr.name = "InternalServerError"
        /\ last.svcErr.message = "Failed to register user"
        /\ last.svcErr.statusCode = 500
        /\ last.svcRes = Null
        /\ last.resp = [status |-> 500, body |-> [error |-> "Failed to register user"]]

\* C29 witness: of two registrations for one email that both passed the
\* lookup, the second to write was rejected by the index.
C29_Witness ==
  /\ Finished("register")
  /\ ~last.existed
  /\ last.createCalls = 1
  /\ last.inserted = 0
  /\ ~last.dbErr
  /\ Cardinality(WithEmail(last.body.email)) = 1
  /\ last.svcErr # Null
  /\ last.svcErr.name = "InternalServerError"

\* A non-empty token is stored under auth_token
TokenStored ==
  /\ window # NoWindow
  /\ window.localStorage.auth_token.present
  /\ window.localStorage.auth_token.value # ""

\* C30: in the web client isAuthenticated() is true exactly when a
\* non-empty token is stored under auth_token. When the client's last
\* operation was setToken(t) with a non-empty t, in a browser, it is true
\* and t is what is stored; when it was removeToken(), logout() or a 401
\* response received through the api client, it is false; and it turns
\* from false to true only by a setToken with a non-empty token.
C30_AuthenticatedIffTokenStored ==
  /\ [](/\ isAuthenticated(window) <=> TokenStored
        /\ (last.kind = "setToken" /\ last.svcArg # "" /\ window # NoWindow) =>
             /\ isAuthenticated(window)
             /\ getToken(window) = Item(last.svcArg)
        /\ last.kind \in {"removeToken", "logout"} => ~isAuthenticated(window)
        /\ (last.kind = "api" /\ last.resp.status = 401) => ~isAuthenticated(window))
  /\ [][(~isAuthenticated(window) /\ isAuthenticated(window'))
          => (last'.kind = "setToken" /\ last'.svcArg # "")]_vars

\* C30 witness: a request left with the token "t1"; the client then stored
\* "t2"; the request's response, a 401, removed the token and sent the
\* browser to /login.
C30_Witness ==
  /\ last.kind = "api"
  /\ last.header = Header("Bearer t1")
  /\ last.resp.status = 401
  /\ window # NoWindow
  /\ window.location.href = "/login"
  /\ ~window.localStorage.auth_token.present
  /\ ~isAuthenticated(window)

\* After setToken("t2") in a browser the client is authenticated.
C30_SetTokenWitness ==
  /\ last.kind = "setToken"
  /\ last.svcArg = "t2"
  /\ TokenStored
  /\ isAuthenticated(window)

====
